---- MODULE Spec2Model ----
(***************************************************************************)
(* Model of the tenexlog analysis engine: the two-pass TSV reader          *)
(* (internal/parse), the rate-spike and sensitive-path detectors           *)
(* (internal/analyze), the upload handler with its temporary file and its  *)
(* anomaly merge (internal/upload), and the wiring of main: the root and    *)
(* protected muxes, the CORS middleware (internal/httputil) and Basic Auth  *)
(* (internal/auth).                                                        *)
(*                                                                         *)
(* Representation choices:                                                 *)
(*  - a line of the file is the sequence of its tab-separated columns      *)
(*    (what strings.Split(line, "\t") returns, never empty) together with  *)
(*    a flag telling whether its byte length exceeds the scanner buffer;   *)
(*  - a time.Time is the number of seconds since 0001-01-01T00:00:00Z, so  *)
(*    the zero Time is 0 and Before/After/Equal are <, >, =;               *)
(*  - time.Parse, strconv.Atoi/ParseInt, strings.ToLower and               *)
(*    strings.HasPrefix are given by their graphs on the finite set of     *)
(*    column texts the model uses;                                         *)
(*  - float64 mean / standard deviation are kept as exact rationals        *)
(*    (sum, sum of squares, n).                                            *)
(***************************************************************************)
EXTENDS Integers, Sequences, FiniteSets, TLC

VARIABLES
    file,          \* the uploaded file: sequence of lines
    maxRows,       \* ParseTSVRows argument (scan cap)
    keepRows,      \* ParseTSVRows argument (retain cap)
    maxAnoms,      \* handler: keepTop of DetectRateSpikes and merge cap
    minHits,       \* DetectSensitivePaths argument
    minUnique,     \* DetectSensitivePaths argument
    pc,            \* control position
    pos,           \* lines the bufio.Scanner of the current pass has delivered
    sum,           \* ParseTSV local: Summary under construction
    seenIPs,       \* ParseTSV local: set of source IPs
    minuteCounts,  \* ParseTSV local: map minute -> count
    timeline,      \* ParseTSV result slice
    rows,          \* ParseTSVRows local / DetectRateSpikes input: kept events
    seen,          \* ParseTSVRows local: scanned-line counter
    ret,           \* what ParseTSVRows returned
    rateAnoms,     \* DetectRateSpikes result
    sensAnoms,     \* DetectSensitivePaths result
    resp,          \* the response of the handler
    run,           \* how many times the pipeline has been started on this input
    prev,          \* the response of the previous run
    allowedOrigin, \* main: the allowed origin handed to httputil.CORS
    req,           \* the request being served
    stage,         \* the handler of the chain that has the request
    reply,         \* what the chain has written so far, and who was invoked
    dest,          \* upload handler: the temporary file of this request
    served,        \* the requests accepted so far
    tmp            \* the temporary files that exist in os.TempDir()

vars == <<file, maxRows, keepRows, maxAnoms, minHits, minUnique, pc, pos, sum,
          seenIPs, minuteCounts, timeline, rows, seen, ret, rateAnoms,
          sensAnoms, resp, run, prev, allowedOrigin, req, stage, reply, dest,
          served, tmp>>

(***************************************************************************)
(* Bounds                                                                  *)
(***************************************************************************)
MaxLines == 3

MaxMinutes == 5

MaxRequests == 2

(***************************************************************************)
(* Library functions, by their graphs on the texts used                    *)
(***************************************************************************)
Minute == 60

ZeroTime == 0

IsZero(t) == t = ZeroTime

\* time.Parse(time.RFC3339, s) followed by .UTC(): the instant, in seconds
\* since the zero Time.  The offset form denotes the same instant as its
\* UTC form.
RFC3339 ==
    ("0001-01-01T00:00:00Z" :> 0)
 @@ ("0001-01-01T00:00:30Z" :> 30)
 @@ ("0001-01-01T01:00:30+01:00" :> 30)
 @@ ("0001-01-01T00:01:05Z" :> 65)
 @@ ("0001-01-01T00:59:50+01:00" :> -10)
 @@ ("0001-01-01T00:02:00Z" :> 120)
 @@ ("0001-01-01T00:03:00Z" :> 180)
 @@ ("0001-01-01T00:04:00Z" :> 240)
 @@ ("0001-01-01T00:05:00Z" :> 300)
 @@ ("0001-01-01T00:06:00Z" :> 360)

TimeParse(s) ==
    IF s \in DOMAIN RFC3339 THEN [err |-> FALSE, t |-> RFC3339[s]]
                            ELSE [err |-> TRUE, t |-> ZeroTime]

\* the Location of the Time that time.Parse(time.RFC3339, s) returns: UTC for
\* the Z form; for an offset form the zone of that offset (time.Local when it
\* has this offset, else the FixedZone shared by all Times of this whole-hour
\* offset), never UTC.  Two Times are equal as Go values (==, map keys) when
\* both the instant and the Location agree.
Location(s) ==
    IF s \in {"0001-01-01T01:00:30+01:00", "0001-01-01T00:59:50+01:00"}
    THEN "+01:00" ELSE "UTC"

\* t.Truncate(time.Minute): rounds down to a multiple of a minute since the
\* zero Time, also for instants before it.
Truncate(t) == t - (t % Minute)

Decimal ==
    ("200" :> 200) @@ ("404" :> 404) @@ ("512" :> 512) @@ ("1024" :> 1024)

\* strconv.Atoi(s) and strconv.ParseInt(s, 10, 64)
Atoi(s) ==
    IF s \in DOMAIN Decimal THEN [err |-> FALSE, n |-> Decimal[s]]
                            ELSE [err |-> TRUE, n |-> 0]

ParseInt(s) == Atoi(s)

\* strings.ToLower
ToLower(s) ==
    CASE s = "/Login" -> "/login"
      [] s = "/.DS_Store" -> "/.ds_store"
      [] OTHER -> s

\* strings.HasPrefix(s, p) on the paths and prefixes used
ProperPrefixes ==
    { <<"/admin/x", "/admin">>, <<"/.git/config", "/.git">> }

HasPrefix(s, p) == s = p \/ <<s, p>> \in ProperPrefixes

Min(a, b) == IF a < b THEN a ELSE b

\* a Go slice value: nil or a (possibly empty) sequence
NilSlice == [isNil |-> TRUE, elems |-> << >>]

Slice(s) == [isNil |-> FALSE, elems |-> s]

\* all enumerations of a finite set, as sequences (the orders in which a
\* range over a Go map may deliver its keys)
RECURSIVE Enum(_)
Enum(S) ==
    IF S = {} THEN << >>
    ELSE LET x == CHOOSE y \in S : TRUE IN <<x>> \o Enum(S \ {x})

Orders(S) ==
    { [i \in 1..Cardinality(S) |-> Enum(S)[p[i]]] :
        p \in Permutations(1..Cardinality(S)) }

\* sort.Slice(s, less) with less(i, j) = key[i].After(key[j]), key[i] being
\* the sort key of s[i]; the sort is not stable: any arrangement of s in
\* which no element is less than one before it
SortSlice(s, key) ==
    { [i \in 1..Len(s) |-> s[p[i]]] : p \in
        { q \in Permutations(1..Len(s)) :
            \A i, j \in 1..Len(s) : i < j => ~(key[q[j]] > key[q[i]]) } }

(***************************************************************************)
(* Input lines                                                             *)
(***************************************************************************)
ColsFull   == <<"0001-01-01T00:00:30Z", "10.0.0.1", "web", "GET", "/admin/x",
                "200", "512", "curl">>
ColsOffset == <<"0001-01-01T01:00:30+01:00", "10.0.0.2", "web", "POST",
                "/Login", "404", "-">>
ColsNext   == <<"0001-01-01T00:01:05Z", "10.0.0.1", "web", "GET",
                "/.git/config", "abc">>
ColsZero   == <<"0001-01-01T00:00:00Z", "10.0.0.2", "web", "GET", "/login">>
ColsBefore == <<"0001-01-01T00:59:50+01:00", "", "web", "GET", "/index.html",
                "200", "1024", "Mozilla", "extra">>
ColsBadTS  == <<"28/Aug/2025:10:00:00", "10.0.0.3", "web", "GET", "/admin/x",
                "200", "512", "curl">>
ColsOnlyTS == <<"0001-01-01T00:01:05Z">>

Lines ==
    { [parts |-> c, tooLong |-> FALSE] :
        c \in {ColsFull, ColsOffset, ColsNext, ColsZero, ColsBefore,
               ColsBadTS, ColsOnlyTS} }
    \cup { [parts |-> ColsFull, tooLong |-> TRUE] }

Files == UNION { [1..n -> Lines] : n \in 0..MaxLines }

\* files made of bursts: per minute, a number of requests of one source
MinuteTexts ==
    <<"0001-01-01T00:00:30Z", "0001-01-01T00:01:05Z", "0001-01-01T00:02:00Z",
      "0001-01-01T00:03:00Z", "0001-01-01T00:04:00Z", "0001-01-01T00:05:00Z",
      "0001-01-01T00:06:00Z">>

BurstCounts == {1, 10, 15}

Repeat(line, n) == [i \in 1..n |-> line]

RECURSIVE Burst(_, _, _)
Burst(ip, path, counts) ==
    IF counts = << >> THEN << >>
    ELSE Burst(ip, path, SubSeq(counts, 1, Len(counts) - 1))
         \o Repeat([parts |-> <<MinuteTexts[Len(counts)], ip, "web", "GET", path,
                                 "200", "512", "curl">>,
                     tooLong |-> FALSE],
                    counts[Len(counts)])

\* the files of the worked examples: one source with per-minute counts
\* 10, 10, 10, 50, one source with 5 requests of /admin/x, one with 4, a
\* low-traffic source with per-minute counts 1, 1, 1, 1, 1, 9, and a source
\* asking for /Login and /.git/config next to a request without source and
\* a /login request stamped with the zero time; two sources asking for
\* /admin/x, one of them with a spike
ExampleFiles ==
    { Burst("10.0.0.1", "/index.html", <<10, 10, 10, 50>>),
      Burst("10.0.0.2", "/admin/x", <<5>>),
      Burst("10.0.0.2", "/admin/x", <<4>>),
      Burst("10.0.0.1", "/index.html", <<1, 1, 1, 1, 1, 9>>),
      Burst("10.0.0.2", "/Login", <<1>>) \o Burst("10.0.0.2", "/.git/config", <<1>>)
        \o Burst("", "/admin/x", <<1>>) \o <<[parts |-> ColsZero, tooLong |-> FALSE]>>,
      Burst("10.0.0.1", "/admin/x", <<1, 1, 10>>) \o Burst("10.0.0.2", "/admin/x", <<5>>) }

BurstFiles ==
    { Burst("10.0.0.1", "/index.html", v) \o w :
        v \in UNION { [1..n -> BurstCounts] : n \in 0..MaxMinutes },
        w \in { << >>, Burst("10.0.0.2", "/admin/x", <<1, 1, 10>>) } }
    \cup ExampleFiles

MaxRowsValues == {-1, 0, 1, 2}

KeepRowsValues == {-1, 0, 1, 2}

\* the constants of the handler, and a tighter setting of the same parameters
maxRowsScan == 100000

keepRowsConst == 5000

HandlerConfig == [maxAnoms |-> 50, minHits |-> 5, minUnique |-> 2]

Configs == { HandlerConfig, [maxAnoms |-> 1, minHits |-> 1, minUnique |-> 1] }

(***************************************************************************)
(* internal/parse                                                          *)
(***************************************************************************)
ZeroSummary == [Lines |-> 0, UniqueIPs |-> 0, Start |-> ZeroTime, End |-> ZeroTime]

ZeroEvent ==
    [TS |-> ZeroTime, SrcIP |-> "", Dst |-> "", Method |-> "", Path |-> "",
     Status |-> 0, Bytes |-> 0, UA |-> ""]

\* a variant of the error return that hands out the summary counted so far
ErrReturn_Partial == [sum |-> sum, timeline |-> NilSlice, rows |-> NilSlice, err |-> TRUE]

\* the error return of ParseTSVRows
ErrReturn == [sum |-> ZeroSummary, timeline |-> NilSlice, rows |-> NilSlice, err |-> TRUE]

\* a variant of ScanLine that records the source IP before it looks at the
\* timestamp
ScanLine_IPFirst(st, parts) ==
    LET counted == [st EXCEPT !.sum.Lines = @ + 1]
        p == TimeParse(parts[1])
        ts == p.t
        min == <<Truncate(ts), Location(parts[1])>>
    IN  IF st.maxRows > 0 /\ counted.sum.Lines > st.maxRows THEN
            [counted EXCEPT !.stop = TRUE]
        ELSE IF Len(parts) < 2 THEN counted
        ELSE IF p.err THEN [counted EXCEPT !.seenIPs = @ \cup {parts[2]}]
        ELSE [counted EXCEPT
                !.sum.Start = IF IsZero(@) \/ ts < @ THEN ts ELSE @,
                !.sum.End = IF IsZero(@) \/ ts > @ THEN ts ELSE @,
                !.seenIPs = @ \cup {parts[2]},
                !.minuteCounts =
                    IF min \in DOMAIN @ THEN [@ EXCEPT ![min] = @ + 1]
                                        ELSE @ @@ (min :> 1)]

\* one iteration of the scan loop of ParseTSV on a delivered line, after the
\* cap test: the locals (sum, seenIPs, minuteCounts) it leaves
ScanLine(st, parts) ==
    LET counted == [st EXCEPT !.sum.Lines = @ + 1]
        p == TimeParse(parts[1])
        ts == p.t
        min == <<Truncate(ts), Location(parts[1])>>
    IN  IF st.maxRows > 0 /\ counted.sum.Lines > st.maxRows THEN
            [counted EXCEPT !.stop = TRUE]
        ELSE IF Len(parts) < 2 THEN counted
        ELSE IF p.err THEN counted
        ELSE [counted EXCEPT
                !.sum.Start = IF IsZero(@) \/ ts < @ THEN ts ELSE @,
                !.sum.End = IF IsZero(@) \/ ts > @ THEN ts ELSE @,
                !.seenIPs = @ \cup {parts[2]},
                !.minuteCounts =
                    IF min \in DOMAIN @ THEN [@ EXCEPT ![min] = @ + 1]
                                        ELSE @ @@ (min :> 1)]

\* a variant of ParseRow that gives up on a line whose status is not a number
ParseRow_Strict(parts) ==
    LET n == Len(parts)
        p == TimeParse(parts[1])
    IN  IF n > 5 /\ Atoi(parts[6]).err THEN ZeroEvent
        ELSE
        [TS     |-> IF n > 0 /\ ~p.err THEN p.t ELSE ZeroTime,
         SrcIP  |-> IF n > 1 THEN parts[2] ELSE "",
         Dst    |-> IF n > 2 THEN parts[3] ELSE "",
         Method |-> IF n > 3 THEN parts[4] ELSE "",
         Path   |-> IF n > 4 THEN parts[5] ELSE "",
         Status |-> IF n > 5 THEN Atoi(parts[6]).n ELSE 0,
         Bytes  |-> IF n > 6 /\ ~ParseInt(parts[7]).err THEN ParseInt(parts[7]).n ELSE 0,
         UA     |-> IF n > 7 THEN parts[8] ELSE ""]

\* the row the second pass builds from the columns of a line
ParseRow(parts) ==
    LET n == Len(parts)
        p == TimeParse(parts[1])
    IN  [TS     |-> IF n > 0 /\ ~p.err THEN p.t ELSE ZeroTime,
         SrcIP  |-> IF n > 1 THEN parts[2] ELSE "",
         Dst    |-> IF n > 2 THEN parts[3] ELSE "",
         Method |-> IF n > 3 THEN parts[4] ELSE "",
         Path   |-> IF n > 4 THEN parts[5] ELSE "",
         Status |-> IF n > 5 /\ ~Atoi(parts[6]).err THEN Atoi(parts[6]).n ELSE 0,
         Bytes  |-> IF n > 6 /\ ~ParseInt(parts[7]).err THEN ParseInt(parts[7]).n ELSE 0,
         UA     |-> IF n > 7 THEN parts[8] ELSE ""]

\* the capacity hint of the rows slice
RowsCapHint == 4096

\* a variant of KeepRow that drops a row without timestamp
KeepRow_DropSparse(rws, ev, keep) ==
    IF IsZero(ev.TS) THEN rws
    ELSE IF keep <= 0 \/ Len(rws) < keep THEN Append(rws, ev) ELSE rws

\* the retain test at the end of the loop body of the second pass
KeepRow(rws, ev, keep) ==
    IF keep <= 0 \/ Len(rws) < keep THEN Append(rws, ev) ELSE rws

\* sort.Slice(in, Before) on a slice of times: equal times are
\* indistinguishable, so the sorted slice is unique; position k holds the
\* value v with (number of elements below v) < k <= (number up to v)
SortTimes(s) ==
    LET vals == { s[i] : i \in 1..Len(s) }
        upTo == [v \in vals |-> Cardinality({ i \in 1..Len(s) : s[i] <= v })]
        below == [v \in vals |-> Cardinality({ i \in 1..Len(s) : s[i] < v })]
    IN  [k \in 1..Len(s) |-> CHOOSE v \in vals : below[v] < k /\ k <= upTo[v]]

\* sort.Slice(keys, Before) on the keys of minuteCounts, a key being a pair
\* <<instant, Location>>: Before compares the instants only.  Keys of the
\* same instant stay in the order of delivery (sort.Slice sorts a slice of
\* up to 12 elements by insertion; for a longer slice the order of equal
\* keys is some order, and each such order comes from a delivery order).
SortKeys(s) ==
    LET place == [i \in 1..Len(s) |->
                    1 + Cardinality({ j \in 1..Len(s) :
                                        \/ s[j][1] < s[i][1]
                                        \/ s[j][1] = s[i][1] /\ j < i })]
    IN  [k \in 1..Len(s) |-> s[CHOOSE i \in 1..Len(s) : place[i] = k]]

\* one Bucket per key of minuteCounts: T is the key, a Time with its instant
\* and its Location
Buckets(keys, mc) ==
    [i \in 1..Len(keys) |->
        [T |-> keys[i][1], Loc |-> keys[i][2], Count |-> mc[keys[i]]]]

\* the tail of ParseTSV: nil for an empty map, else the keys, delivered in
\* the given order, sorted and turned into buckets
TimelineOf(order, mc) ==
    IF Len(order) = 0 THEN NilSlice ELSE Slice(Buckets(SortKeys(order), mc))

\* one turn of the scan loop of ParseTSV: nothing once the loop has been
\* left, the scanner's error on a line beyond its buffer, else ScanLine
ParseTSVTurn(st, line) ==
    IF st.stop \/ st.err THEN st
    ELSE IF line.tooLong THEN [st EXCEPT !.err = TRUE]
    ELSE ScanLine(st, line.parts)

\* the scan loop of ParseTSV over lines lo..hi of the file, the turns taken
\* in file order: the state after the first half of the range is computed,
\* then the second half runs from it
RECURSIVE ParseTSVLoop(_, _, _, _)
ParseTSVLoop(st, f, lo, hi) ==
    IF lo > hi THEN st
    ELSE IF lo = hi THEN ParseTSVTurn(st, f[lo])
    ELSE CHOOSE done \in
           { ParseTSVLoop(half, f, (lo + hi) \div 2 + 1, hi) :
               half \in { ParseTSVLoop(st, f, lo, (lo + hi) \div 2) } } : TRUE

\* ParseTSV with the map delivering its keys in the order Enum; this is the
\* only outcome when no two keys are of the same instant
ParseTSV(f, cap) ==
    LET end == ParseTSVLoop([sum |-> ZeroSummary, seenIPs |-> {},
                             minuteCounts |-> << >>, maxRows |-> cap,
                             stop |-> FALSE, err |-> FALSE], f, 1, Len(f))
        mc == end.minuteCounts
    IN  IF end.err THEN [sum |-> ZeroSummary, timeline |-> NilSlice, err |-> TRUE]
        ELSE [sum |-> [end.sum EXCEPT !.UniqueIPs = Cardinality(end.seenIPs)],
              timeline |-> TimelineOf(Enum(DOMAIN mc), mc),
              err |-> FALSE]

\* a variant of RowsTurn that does not leave the loop at the cap
RowsTurn_Uncapped(st, line) ==
    IF st.stop THEN st
    ELSE [st EXCEPT !.seen = @ + 1,
                    !.rows = KeepRow(@, ParseRow(line.parts), st.keepRows)]

\* one turn of the scan loop of the second pass: count the line, leave the
\* loop beyond the cap, else parse the row and retain it
RowsTurn(st, line) ==
    IF st.stop THEN st
    ELSE IF st.maxRows > 0 /\ st.seen + 1 > st.maxRows THEN
        [st EXCEPT !.seen = @ + 1, !.stop = TRUE]
    ELSE [st EXCEPT !.seen = @ + 1,
                    !.rows = KeepRow(@, ParseRow(line.parts), st.keepRows)]

\* the scan loop of the second pass over lines lo..hi, in file order
RECURSIVE RowsLoop(_, _, _, _)
RowsLoop(st, f, lo, hi) ==
    IF lo > hi THEN st
    ELSE IF lo = hi THEN RowsTurn(st, f[lo])
    ELSE CHOOSE done \in
           { RowsLoop(half, f, (lo + hi) \div 2 + 1, hi) :
               half \in { RowsLoop(st, f, lo, (lo + hi) \div 2) } } : TRUE

\* ParseTSVRows as a whole, for a capacity hint that is not negative
ParseTSVRows(f, cap, keep) ==
    LET first == ParseTSV(f, cap)
    IN  IF first.err THEN ErrReturn
        ELSE [sum |-> first.sum, timeline |-> first.timeline,
              rows |-> Slice(RowsLoop([rows |-> << >>, seen |-> 0, stop |-> FALSE,
                                       maxRows |-> cap, keepRows |-> keep],
                                      f, 1, Len(f)).rows),
              err |-> FALSE]

(***************************************************************************)
(* internal/analyze: DetectRateSpikes                                      *)
(***************************************************************************)
absFloor == 10

RECURSIVE SumSeq(_)
SumSeq(xs) == IF xs = << >> THEN 0 ELSE Head(xs) + SumSeq(Tail(xs))

\* one turn of the grouping loop over rows: perMin (key -> count) and
\* perIPMinutes (ip -> minutes in row order); a key is <<ip, minute>>
RateTurn(acc, ev) ==
    LET min == Truncate(ev.TS)
        k == <<ev.SrcIP, min>>
    IN  IF ev.SrcIP = "" \/ IsZero(ev.TS) THEN acc
        ELSE [perMin |->
                 IF k \in DOMAIN acc.perMin
                 THEN [acc.perMin EXCEPT ![k] = @ + 1]
                 ELSE acc.perMin @@ (k :> 1),
              perIPMinutes |->
                 IF ev.SrcIP \in DOMAIN acc.perIPMinutes
                 THEN [acc.perIPMinutes EXCEPT ![ev.SrcIP] = Append(@, min)]
                 ELSE acc.perIPMinutes @@ (ev.SrcIP :> <<min>>)]

\* the grouping loop over rows lo..hi, in row order
RECURSIVE RateCollect(_, _, _, _)
RateCollect(acc, rws, lo, hi) ==
    IF lo > hi THEN acc
    ELSE IF lo = hi THEN RateTurn(acc, rws[lo])
    ELSE CHOOSE done \in
           { RateCollect(half, rws, (lo + hi) \div 2 + 1, hi) :
               half \in { RateCollect(acc, rws, lo, (lo + hi) \div 2) } } : TRUE

\* the compaction of uniqueSorted: an element of the sorted slice is kept
\* when it is the first or differs from the one before it
Dedup(s) ==
    LET kept == SelectSeq([i \in 1..Len(s) |-> i], LAMBDA i : i = 1 \/ s[i] # s[i - 1])
    IN  [j \in 1..Len(kept) |-> s[kept[j]]]

uniqueSorted(in) == IF Len(in) = 0 THEN in ELSE Dedup(SortTimes(in))

\* mean and population standard deviation of xs, exactly: mean = sum / n and
\* std = sqrt(dev2) / n with dev2 = n * (sum of squares) - sum^2
meanStd(xs) ==
    IF Len(xs) = 0 THEN [n |-> 1, sum |-> 0, dev2 |-> 0]
    ELSE [n |-> Len(xs),
          sum |-> SumSeq(xs),
          dev2 |-> Len(xs) * SumSeq([i \in 1..Len(xs) |-> xs[i] * xs[i]])
                   - SumSeq(xs) * SumSeq(xs)]

\* a variant of ZAtLeast2 for z > 2.0
ZAtLeast2_Strict(c, ms) ==
    /\ ms.n * c - ms.sum >= 0
    /\ (ms.n * c - ms.sum) * (ms.n * c - ms.sum) > 4 * ms.dev2

\* z >= 2.0 for z = (c - mean) / std, std > 0
ZAtLeast2(c, ms) ==
    /\ ms.n * c - ms.sum >= 0
    /\ (ms.n * c - ms.sum) * (ms.n * c - ms.sum) >= 4 * ms.dev2

\* a variant of CeilMult for three times the mean
CeilMult_Triple(ms) == (3 * ms.sum + ms.n - 1) \div ms.n

\* math.Ceil(2.5 * mean)
CeilMult(ms) == (5 * ms.sum + 2 * ms.n - 1) \div (2 * ms.n)

Max(a, b) == IF a > b THEN a ELSE b

\* a variant of Flagged whose branch for equal counts asks for the floor only
Flagged_EqualCounts(c, ms) ==
    /\ ~(c < absFloor)
    /\ IF ms.dev2 > 0
       THEN ZAtLeast2(c, ms) \/ c >= Max(CeilMult(ms), absFloor)
       ELSE ms.sum > 0 /\ c >= absFloor

\* the test of the inner loop of DetectRateSpikes: is count c flagged
Flagged(c, ms) ==
    /\ ~(c < absFloor)
    /\ IF ms.dev2 > 0
       THEN ZAtLeast2(c, ms) \/ c >= Max(CeilMult(ms), absFloor)
       ELSE /\ ms.sum > 0
            /\ 2 * ms.n * c >= 5 * ms.sum
            /\ c >= absFloor

\* round2(mean), in hundredths
round2(num, den) == (200 * num + den) \div (2 * den)

\* round2(z), in hundredths, for z = (c - mean) / std = (n c - sum) / sqrt(dev2):
\* math.Round(100 z) is k when (2k - 1)^2 dev2 <= 40000 (n c - sum)^2 < (2k + 1)^2 dev2,
\* with the sign of n c - sum; 3.0 on the branch for std = 0
Z100(c, ms) ==
    LET d == ms.n * c - ms.sum
        k == CHOOSE k \in 0..10000 :
                /\ k = 0 \/ (2 * k - 1) * (2 * k - 1) * ms.dev2 <= 40000 * d * d
                /\ 40000 * d * d < (2 * k + 1) * (2 * k + 1) * ms.dev2
    IN  IF ms.dev2 > 0 THEN (IF d >= 0 THEN k ELSE -k) ELSE 300

\* the steps of z -> round2(1 - math.Exp(-z / 3.0)): SquashSteps[j] is
\* 10000 t^2 for the least t with round2(1 - e^(-t/3)) = j / 100, that is
\* t = -3 ln(1 - (2j - 1) / 200)
SquashSteps ==
    <<2, 21, 58, 114, 191, 288, 407, 547,
      710, 897, 1108, 1343, 1605, 1893, 2209, 2553,
      2926, 3331, 3766, 4235, 4737, 5274, 5847, 6458,
      7108, 7799, 8531, 9307, 10129, 10997, 11914, 12882,
      13903, 14979, 16113, 17306, 18561, 19881, 21269, 22728,
      24261, 25870, 27561, 29336, 31200, 33157, 35211, 37368,
      39631, 42008, 44504, 47125, 49877, 52769, 55808, 59002,
      62361, 65895, 69613, 73528, 77652, 81998, 86582, 91420,
      96529, 101929, 107641, 113690, 120100, 126902, 134127, 141812,
      149998, 158729, 168057, 178041, 188748, 200253, 212646, 226028,
      240518, 256259, 273415, 292187, 312815, 335596, 360894, 389167,
      421002, 457163, 498667, 546906, 603854, 672417, 757120, 865510,
      1011477, 1224705, 1587377, 2526495>>

\* a variant of Confidence100 that applies the floor 0.8 whatever std is
Confidence100_Floored(c, ms) ==
    LET d == ms.n * c - ms.sum
        Reached(j) == 10000 * d * d >= SquashSteps[j] * ms.dev2
        j == CHOOSE j \in 0..Len(SquashSteps) :
                /\ j = 0 \/ Reached(j)
                /\ j = Len(SquashSteps) \/ ~Reached(j + 1)
    IN  IF ms.dev2 > 0 THEN (IF d >= 0 THEN Max(Min(100, j), 80) ELSE 80) ELSE Max(63, 80)

\* conf of the inner loop, in hundredths, after its two clamps: for std > 0
\* and z >= 0 the number of steps z has reached, never above 1; for std = 0
\* (z = 3.0, 1 - e^(-1) = 0.63) the floor 0.8; for z < 0, 1 - e^(-z/3) < 0
\* is given by its sign alone
Confidence100(c, ms) ==
    LET d == ms.n * c - ms.sum
        Reached(j) == 10000 * d * d >= SquashSteps[j] * ms.dev2
        j == CHOOSE j \in 0..Len(SquashSteps) :
                /\ j = 0 \/ Reached(j)
                /\ j = Len(SquashSteps) \/ ~Reached(j + 1)
    IN  IF ms.dev2 > 0 THEN (IF d >= 0 THEN Min(100, j) ELSE -1) ELSE Max(63, 80)

\* a variant of SpikesOfIP whose test leaves out the floor
SpikesOfIP_NoFloor(ip, mins, perMin) ==
    LET cnt == [i \in 1..Len(mins) |-> perMin[<<ip, mins[i]>>]]
        ms == meanStd(cnt)
        kept == SelectSeq([i \in 1..Len(mins) |-> i],
                          LAMBDA i : /\ ms.dev2 > 0
                                     /\ ZAtLeast2(cnt[i], ms) \/ cnt[i] >= CeilMult(ms))
    IN  [j \in 1..Len(kept) |->
            [Kind |-> "rate_spike", SrcIP |-> ip, Minute |-> mins[kept[j]],
             Count |-> cnt[kept[j]], Baseline |-> round2(ms.sum, ms.n),
             Z |-> Z100(cnt[kept[j]], ms),
             Confidence |-> Confidence100(cnt[kept[j]], ms)]]

\* the anomalies one IP contributes, in the order of its minutes
SpikesOfIP(ip, mins, perMin) ==
    LET cnt == [i \in 1..Len(mins) |-> perMin[<<ip, mins[i]>>]]
        ms == meanStd(cnt)
        kept == SelectSeq([i \in 1..Len(mins) |-> i], LAMBDA i : Flagged(cnt[i], ms))
    IN  [j \in 1..Len(kept) |->
            [Kind |-> "rate_spike", SrcIP |-> ip, Minute |-> mins[kept[j]],
             Count |-> cnt[kept[j]], Baseline |-> round2(ms.sum, ms.n),
             Z |-> Z100(cnt[kept[j]], ms),
             Confidence |-> Confidence100(cnt[kept[j]], ms)]]

\* out after the loop over perIPMinutes, the map delivering its keys in order
RECURSIVE SpikesInOrder(_, _, _)
SpikesInOrder(order, perIPMinutes, perMin) ==
    IF order = << >> THEN << >>
    ELSE SpikesOfIP(Head(order), uniqueSorted(perIPMinutes[Head(order)]), perMin)
         \o SpikesInOrder(Tail(order), perIPMinutes, perMin)

\* the sort keys of the anomalies
MinuteOf(out) == [i \in 1..Len(out) |-> out[i].Minute]

\* a variant of KeepTop that keeps the end of the slice
KeepTop_Tail(out, keepTop) ==
    IF keepTop > 0 /\ Len(out) > keepTop
    THEN SubSeq(out, Len(out) - keepTop + 1, Len(out)) ELSE out

KeepTop(out, keepTop) ==
    IF keepTop > 0 /\ Len(out) > keepTop THEN SubSeq(out, 1, keepTop) ELSE out

\* every slice DetectRateSpikes(rws, keepTop) can return
DetectRateSpikes(rws, keepTop) ==
    LET g == RateCollect([perMin |-> << >>, perIPMinutes |-> << >>], rws, 1, Len(rws))
    IN  UNION { { IF Len(sorted) = 0 THEN NilSlice ELSE Slice(KeepTop(sorted, keepTop)) :
                    sorted \in SortSlice(SpikesInOrder(order, g.perIPMinutes, g.perMin),
                                         MinuteOf(SpikesInOrder(order, g.perIPMinutes,
                                                                g.perMin))) } :
                order \in Orders(DOMAIN g.perIPMinutes) }

(***************************************************************************)
(* internal/analyze: DetectSensitivePaths                                  *)
(***************************************************************************)
SensitivityList ==
    <<"/admin", "/login", "/wp-admin", "/wp-login", "/xmlrpc.php", "/.git",
      "/.env", "/.DS_Store", "/.well-known", "/server-status", "/phpmyadmin",
      "/manager", "/actuator", "/console">>

prefixes == [i \in 1..Len(SensitivityList) |-> ToLower(SensitivityList[i])]

\* the first prefix the path as written starts with
Matched_CaseSensitive(path) ==
    LET hit == { i \in 1..Len(prefixes) : HasPrefix(path, prefixes[i]) }
    IN  IF hit = {} THEN ""
        ELSE prefixes[CHOOSE i \in hit : \A j \in hit : i <= j]

\* the first prefix the lower-cased path starts with, "" when there is none
Matched(path) ==
    LET lpath == ToLower(path)
        hit == { i \in 1..Len(prefixes) : HasPrefix(lpath, prefixes[i]) }
    IN  IF hit = {} THEN ""
        ELSE prefixes[CHOOSE i \in hit : \A j \in hit : i <= j]

\* one turn of the collecting loop over rows: ipToCounts, ipFirst, ipLast
SensTurn(acc, ev) ==
    LET ip == ev.SrcIP
        m == Matched(ev.Path)
        t == ev.TS
        first == IF ip \in DOMAIN acc.ipFirst THEN acc.ipFirst[ip] ELSE ZeroTime
        last == IF ip \in DOMAIN acc.ipLast THEN acc.ipLast[ip] ELSE ZeroTime
        pcnt == IF ip \in DOMAIN acc.ipToCounts THEN acc.ipToCounts[ip] ELSE << >>
    IN  IF ip = "" \/ ev.Path = "" \/ IsZero(ev.TS) THEN acc
        ELSE IF m = "" THEN acc
        ELSE [ipToCounts |->
                 (ip :> (IF m \in DOMAIN pcnt THEN [pcnt EXCEPT ![m] = @ + 1]
                                              ELSE pcnt @@ (m :> 1)))
                 @@ acc.ipToCounts,
              ipFirst |->
                 (ip :> (IF IsZero(first) \/ t < first THEN t ELSE first))
                 @@ acc.ipFirst,
              ipLast |->
                 (ip :> (IF IsZero(last) \/ t > last THEN t ELSE last))
                 @@ acc.ipLast]

\* the collecting loop over rows lo..hi, in row order
RECURSIVE SensCollect(_, _, _, _)
SensCollect(acc, rws, lo, hi) ==
    IF lo > hi THEN acc
    ELSE IF lo = hi THEN SensTurn(acc, rws[lo])
    ELSE CHOOSE done \in
           { SensCollect(half, rws, (lo + hi) \div 2 + 1, hi) :
               half \in { SensCollect(acc, rws, lo, (lo + hi) \div 2) } } : TRUE

RECURSIVE SumOver(_, _)
SumOver(f, S) ==
    IF S = {} THEN 0
    ELSE LET x == CHOOSE y \in S : TRUE IN f[x] + SumOver(f, S \ {x})

\* round2(1 - expNeg(hits / 10.0)), in hundredths: HitsSquash[h] for h hits,
\* 1.00 from 53 hits on
HitsSquash ==
    <<10, 18, 26, 33, 39, 45, 50, 55, 59, 63, 67, 70, 73, 75, 78,
      80, 82, 83, 85, 86, 88, 89, 90, 91, 92, 93, 93, 94, 94, 95,
      95, 96, 96, 97, 97, 97, 98, 98, 98, 98, 98, 99, 99, 99, 99,
      99, 99, 99, 99, 99, 99, 99, 100, 100, 100, 100, 100, 100, 100, 100>>

HitsConfidence(hits) ==
    IF hits <= 0 THEN 0
    ELSE IF hits > Len(HitsSquash) THEN 100
    ELSE HitsSquash[hits]

\* out after the loop over ipToCounts, the map delivering its keys in order
RECURSIVE SensInOrder(_, _, _, _)
SensInOrder(order, acc, hitsMin, uniqMin) ==
    IF order = << >> THEN << >>
    ELSE LET ip == Head(order)
             pcnt == acc.ipToCounts[ip]
             uniq == Cardinality(DOMAIN pcnt)
             hits == SumOver(pcnt, DOMAIN pcnt)
             rest == SensInOrder(Tail(order), acc, hitsMin, uniqMin)
         IN  IF hits >= hitsMin \/ uniq >= uniqMin
             THEN <<[Kind |-> "sensitive_paths", SrcIP |-> ip,
                     FirstSeen |-> acc.ipFirst[ip], LastSeen |-> acc.ipLast[ip],
                     Hits |-> hits, UniquePref |-> uniq,
                     Confidence |-> HitsConfidence(hits)]>> \o rest
             ELSE rest

\* a variant of LastSeenOf that takes FirstSeen for the sort key
LastSeenOf_FirstSeen(out) == [i \in 1..Len(out) |-> out[i].FirstSeen]

\* the sort keys of the anomalies
LastSeenOf(out) == [i \in 1..Len(out) |-> out[i].LastSeen]

\* every slice DetectSensitivePaths(rws, minHits, minUnique) can return
DetectSensitivePaths(rws, hitsMin, uniqMin) ==
    LET acc == SensCollect([ipToCounts |-> << >>, ipFirst |-> << >>, ipLast |-> << >>],
                           rws, 1, Len(rws))
    IN  UNION { { Slice(sorted) :
                    sorted \in SortSlice(SensInOrder(order, acc, hitsMin, uniqMin),
                                         LastSeenOf(SensInOrder(order, acc, hitsMin,
                                                                uniqMin))) } :
                order \in Orders(DOMAIN acc.ipToCounts) }

(***************************************************************************)
(* internal/upload: the merge of the handler                               *)
(***************************************************************************)
\* a rate spike that also carries the counters of the other kind
FromRate_WithHits(a) ==
    [Kind |-> a.Kind, SrcIP |-> a.SrcIP,
     set |-> {"Minute", "Count", "Baseline", "Z", "Hits", "UniquePref"},
     Minute |-> a.Minute, Count |-> a.Count, Baseline |-> a.Baseline, Z |-> a.Z,
     FirstSeen |-> ZeroTime, LastSeen |-> ZeroTime, Hits |-> 0, UniquePref |-> 0,
     Confidence |-> a.Confidence]

\* the union shape: the pointer fields that are set, and their values
FromRate(a) ==
    [Kind |-> a.Kind, SrcIP |-> a.SrcIP,
     set |-> {"Minute", "Count", "Baseline", "Z"},
     Minute |-> a.Minute, Count |-> a.Count, Baseline |-> a.Baseline, Z |-> a.Z,
     FirstSeen |-> ZeroTime, LastSeen |-> ZeroTime, Hits |-> 0, UniquePref |-> 0,
     Confidence |-> a.Confidence]

FromSensitive(a) ==
    [Kind |-> a.Kind, SrcIP |-> a.SrcIP,
     set |-> {"FirstSeen", "LastSeen", "Hits", "UniquePref"},
     Minute |-> ZeroTime, Count |-> 0, Baseline |-> 0, Z |-> 0,
     FirstSeen |-> a.FirstSeen, LastSeen |-> a.LastSeen, Hits |-> a.Hits,
     UniquePref |-> a.UniquePref,
     Confidence |-> a.Confidence]

\* the cut keeping the last cap entries
Merge_Tail(rate, sens, cap) ==
    LET all == [i \in 1..Len(rate) |-> FromRate(rate[i])]
               \o [i \in 1..Len(sens) |-> FromSensitive(sens[i])]
    IN  Slice(IF Len(all) > cap THEN SubSeq(all, Len(all) - cap + 1, Len(all)) ELSE all)

Merge(rate, sens, cap) ==
    LET all == [i \in 1..Len(rate) |-> FromRate(rate[i])]
               \o [i \in 1..Len(sens) |-> FromSensitive(sens[i])]
    IN  Slice(IF Len(all) > cap THEN SubSeq(all, 1, cap) ELSE all)

\* the response: nothing written yet, an error status, or 200 with Results
NoResponse ==
    [status |-> 0, Summary |-> ZeroSummary, Timeline |-> NilSlice,
     Rows |-> NilSlice, Anomalies |-> NilSlice]

ErrorResponse(code) == [NoResponse EXCEPT !.status = code]

(***************************************************************************)
(* main, internal/httputil CORS, internal/auth BasicAuth: requests          *)
(***************************************************************************)
\* BASIC_USER and BASIC_PASS of the environment
BasicUser == "admin"

BasicPass == "secret"

\* main: the default for an empty CORS_ORIGIN
DefaultOrigin == "http://localhost:3000"

\* main: allowedOrigin for the values of CORS_ORIGIN "", the default itself,
\* and the default written with a blank on either side
AllowedOrigins ==
    { IF env = "" THEN DefaultOrigin ELSE env :
        env \in {"", "http://localhost:3000", " http://localhost:3000 "} }

\* strings.TrimSpace
TrimSpace(s) == IF s = " http://localhost:3000 " THEN "http://localhost:3000" ELSE s

Methods == {"GET", "HEAD", "POST", "OPTIONS"}

Paths == {"/healthz", "/ping", "/api/upload", "/other"}

Origins == {"", "http://localhost:3000", "http://evil.example"}

\* Authorization headers: none, another scheme, the scheme in lower case,
\* no base64, base64 of "admin", "admin:wrong", "root:secret", "admin:secret"
AuthzValues ==
    {"", "Bearer YWRtaW46c2VjcmV0", "basic YWRtaW46c2VjcmV0", "Basic ###",
     "Basic YWRtaW4=", "Basic YWRtaW46d3Jvbmc=", "Basic cm9vdDpzZWNyZXQ=",
     "Basic YWRtaW46c2VjcmV0"}

\* strings.HasPrefix(authz, "Basic ")
HasBasicPrefix(authz) ==
    authz \in {"Basic ###", "Basic YWRtaW4=", "Basic YWRtaW46d3Jvbmc=",
               "Basic cm9vdDpzZWNyZXQ=", "Basic YWRtaW46c2VjcmV0"}

\* strings.TrimPrefix(authz, "Basic ")
TrimBasicPrefix(authz) ==
    CASE authz = "Basic ###" -> "###"
      [] authz = "Basic YWRtaW4=" -> "YWRtaW4="
      [] authz = "Basic YWRtaW46d3Jvbmc=" -> "YWRtaW46d3Jvbmc="
      [] authz = "Basic cm9vdDpzZWNyZXQ=" -> "cm9vdDpzZWNyZXQ="
      [] authz = "Basic YWRtaW46c2VjcmV0" -> "YWRtaW46c2VjcmV0"
      [] OTHER -> authz

\* base64.StdEncoding.DecodeString
Base64 ==
    ("YWRtaW4=" :> "admin") @@ ("YWRtaW46d3Jvbmc=" :> "admin:wrong")
 @@ ("cm9vdDpzZWNyZXQ=" :> "root:secret") @@ ("YWRtaW46c2VjcmV0" :> "admin:secret")

DecodeString(s) ==
    IF s \in DOMAIN Base64 THEN [err |-> FALSE, dec |-> Base64[s]]
                           ELSE [err |-> TRUE, dec |-> ""]

\* strings.SplitN(dec, ":", 2)
SplitN2(dec) ==
    CASE dec = "admin:wrong" -> <<"admin", "wrong">>
      [] dec = "root:secret" -> <<"root", "secret">>
      [] dec = "admin:secret" -> <<"admin", "secret">>
      [] OTHER -> <<dec>>

\* a variant of Authorized that is content with the user name
Authorized_UserOnly(authz) ==
    /\ HasBasicPrefix(authz)
    /\ ~DecodeString(TrimBasicPrefix(authz)).err
    /\ Len(SplitN2(DecodeString(TrimBasicPrefix(authz)).dec)) = 2
    /\ SplitN2(DecodeString(TrimBasicPrefix(authz)).dec)[1] = BasicUser

\* the tests of the BasicAuth middleware: does it call next
Authorized(authz) ==
    /\ HasBasicPrefix(authz)
    /\ ~DecodeString(TrimBasicPrefix(authz)).err
    /\ Len(SplitN2(DecodeString(TrimBasicPrefix(authz)).dec)) = 2
    /\ SplitN2(DecodeString(TrimBasicPrefix(authz)).dec)[1] = BasicUser
    /\ SplitN2(DecodeString(TrimBasicPrefix(authz)).dec)[2] = BasicPass

\* a variant of AllowsOrigin that accepts every origin
AllowsOrigin_AnyNonEmpty(origin, allowed) == origin # ""

\* the test of the CORS middleware for setting the Access-Control-Allow-*
\* headers, allowed being the origin main configured
AllowsOrigin(origin, allowed) == origin = TrimSpace(allowed)

\* a request: method, path, Origin and Authorization headers, and whether
\* the multipart form has a part "file"
Requests ==
    { r \in [method : Methods, path : Paths, origin : Origins,
             authz : AuthzValues, hasFile : BOOLEAN] :
        r.hasFile => (r.method = "POST" /\ r.path = "/api/upload") }

\* the uploaded files of the requests: empty, one line longer than the
\* scanner's buffer, five requests of /admin/x
Uploads ==
    { << >>, <<[parts |-> ColsFull, tooLong |-> TRUE]>>,
      Burst("10.0.0.2", "/admin/x", <<5>>) }

UploadRequest ==
    [method |-> "POST", path |-> "/api/upload", origin |-> "",
     authz |-> "Basic YWRtaW46c2VjcmV0", hasFile |-> TRUE]

NoRequest ==
    [method |-> "", path |-> "", origin |-> "", authz |-> "", hasFile |-> FALSE]

\* nothing written: no status, no Access-Control-Allow-* headers, no handler
\* invoked; at names the statement that wrote the status
NoReply == [status |-> 0, allow |-> FALSE, called |-> {}, at |-> ""]

TypeOK ==
    /\ file \in Files \cup BurstFiles \cup Uploads
    /\ req \in Requests \cup {NoRequest}
    /\ stage \in {"idle", "root", "cors", "auth", "mux", "upload", "copy", "parse",
                  "answered"}
    /\ allowedOrigin \in AllowedOrigins
    /\ tmp \subseteq 0..served
    /\ pc \in {"open1", "scan1", "end1", "open2", "scan2", "end2", "returned",
               "sens", "merge", "done", "panic", "wait"}

Init ==
    /\ file \in Files
    /\ maxRows \in MaxRowsValues
    /\ keepRows \in KeepRowsValues
    /\ \E c \in Configs :
         /\ maxAnoms = c.maxAnoms
         /\ minHits = c.minHits
         /\ minUnique = c.minUnique
    /\ pc = "open1"
    /\ pos = 0
    /\ sum = ZeroSummary
    /\ seenIPs = {}
    /\ minuteCounts = << >>
    /\ timeline = NilSlice
    /\ rows = << >>
    /\ seen = 0
    /\ ret = [sum |-> ZeroSummary, timeline |-> NilSlice, rows |-> NilSlice, err |-> FALSE]
    /\ rateAnoms = NilSlice
    /\ sensAnoms = NilSlice
    /\ resp = NoResponse
    /\ run = 1
    /\ prev = NoResponse
    /\ allowedOrigin = DefaultOrigin
    /\ req = UploadRequest
    /\ stage = "parse"
    /\ reply = [NoReply EXCEPT !.called = {"cors", "auth", "upload"}]
    /\ dest = 1
    /\ served = 1
    /\ tmp = {1}

input == <<file, maxRows, keepRows, maxAnoms, minHits, minUnique, run, prev>>

\* the request on its way through the chain of handlers
chain == <<allowedOrigin, req, stage, reply, dest, served>>

\* ParseTSV: os.Open succeeds; the locals are fresh
ParseTSV_Open ==
    /\ pc = "open1"
    /\ pc' = "scan1"
    /\ pos' = 0
    /\ sum' = ZeroSummary
    /\ seenIPs' = {}
    /\ minuteCounts' = << >>
    /\ UNCHANGED <<chain, tmp, input, timeline, rows, seen, ret, rateAnoms, sensAnoms, resp>>

\* ParseTSV: os.Open fails; ParseTSVRows passes the error on
ParseTSV_OpenFail ==
    /\ pc = "open1"
    /\ pc' = "returned"
    /\ ret' = ErrReturn
    /\ UNCHANGED <<chain, tmp, input, pos, sum, seenIPs, minuteCounts, timeline, rows, seen,
                   rateAnoms, sensAnoms, resp>>

\* ParseTSV: sc.Scan() delivers the next line and the loop body runs
ParseTSV_Scan ==
    /\ pc = "scan1"
    /\ pos < Len(file)
    /\ ~file[pos + 1].tooLong
    /\ LET st == ScanLine([sum |-> sum, seenIPs |-> seenIPs,
                           minuteCounts |-> minuteCounts, maxRows |-> maxRows,
                           stop |-> FALSE, err |-> FALSE],
                          file[pos + 1].parts)
       IN  /\ sum' = st.sum
           /\ seenIPs' = st.seenIPs
           /\ minuteCounts' = st.minuteCounts
           /\ pc' = IF st.stop THEN "end1" ELSE "scan1"
    /\ pos' = pos + 1
    /\ UNCHANGED <<chain, tmp, input, timeline, rows, seen, ret, rateAnoms, sensAnoms, resp>>

\* ParseTSV: sc.Scan() returns false at the end of the file
ParseTSV_EOF ==
    /\ pc = "scan1"
    /\ pos = Len(file)
    /\ pc' = "end1"
    /\ UNCHANGED <<chain, tmp, input, pos, sum, seenIPs, minuteCounts, timeline, rows, seen,
                   ret, rateAnoms, sensAnoms, resp>>

\* ParseTSV: sc.Scan() returns false on a line longer than the buffer and
\* sc.Err() is bufio.ErrTooLong
ParseTSV_TooLong ==
    /\ pc = "scan1"
    /\ pos < Len(file)
    /\ file[pos + 1].tooLong
    /\ pc' = "returned"
    /\ ret' = ErrReturn
    /\ UNCHANGED <<chain, tmp, input, pos, sum, seenIPs, minuteCounts, timeline, rows, seen,
                   rateAnoms, sensAnoms, resp>>

\* a variant of ParseTSV_Return that reports the lines counted as UniqueIPs
ParseTSV_Return_PerLine ==
    /\ pc = "end1"
    /\ sum' = [sum EXCEPT !.UniqueIPs = sum.Lines]
    /\ \E order \in Orders(DOMAIN minuteCounts) :
         timeline' = TimelineOf(order, minuteCounts)
    /\ pc' = "open2"
    /\ UNCHANGED <<chain, tmp, input, pos, seenIPs, minuteCounts, rows, seen, ret, rateAnoms,
                   sensAnoms, resp>>

\* ParseTSV after the loop: UniqueIPs, the sorted keys and the buckets
ParseTSV_Return ==
    /\ pc = "end1"
    /\ sum' = [sum EXCEPT !.UniqueIPs = Cardinality(seenIPs)]
    /\ \E order \in Orders(DOMAIN minuteCounts) :
         timeline' = TimelineOf(order, minuteCounts)
    /\ pc' = "open2"
    /\ UNCHANGED <<chain, tmp, input, pos, seenIPs, minuteCounts, rows, seen, ret, rateAnoms,
                   sensAnoms, resp>>

\* ParseTSVRows: the second os.Open fails
ParseTSVRows_OpenFail ==
    /\ pc = "open2"
    /\ pc' = "returned"
    /\ ret' = ErrReturn
    /\ UNCHANGED <<chain, tmp, input, pos, sum, seenIPs, minuteCounts, timeline, rows, seen,
                   rateAnoms, sensAnoms, resp>>

\* ParseTSVRows: make([]Event, 0, min(keepRows, 4096)) panics on a negative
\* capacity
ParseTSVRows_MakePanic ==
    /\ pc = "open2"
    /\ Min(keepRows, RowsCapHint) < 0
    /\ pc' = "panic"
    /\ UNCHANGED <<chain, tmp, input, pos, sum, seenIPs, minuteCounts, timeline, rows, seen,
                   ret, rateAnoms, sensAnoms, resp>>

\* ParseTSVRows: the second os.Open succeeds and rows is allocated
ParseTSVRows_Open ==
    /\ pc = "open2"
    /\ Min(keepRows, RowsCapHint) >= 0
    /\ pc' = "scan2"
    /\ pos' = 0
    /\ rows' = << >>
    /\ seen' = 0
    /\ UNCHANGED <<chain, tmp, input, sum, seenIPs, minuteCounts, timeline, ret, rateAnoms,
                   sensAnoms, resp>>

\* ParseTSVRows: sc.Scan() delivers the next line and the loop body runs.
\* (The first pass has already returned an error for a file with an
\* over-long line within the scanned portion, so every line delivered here
\* fits the buffer.)
ParseTSVRows_Scan ==
    /\ pc = "scan2"
    /\ pos < Len(file)
    /\ ~file[pos + 1].tooLong
    /\ LET st == RowsTurn([rows |-> rows, seen |-> seen, stop |-> FALSE,
                           maxRows |-> maxRows, keepRows |-> keepRows],
                          file[pos + 1])
       IN  /\ rows' = st.rows
           /\ seen' = st.seen
           /\ pc' = IF st.stop THEN "end2" ELSE "scan2"
    /\ pos' = pos + 1
    /\ UNCHANGED <<chain, tmp, input, sum, seenIPs, minuteCounts, timeline, ret, rateAnoms,
                   sensAnoms, resp>>

\* ParseTSVRows: sc.Scan() returns false at the end of the file
ParseTSVRows_EOF ==
    /\ pc = "scan2"
    /\ pos = Len(file)
    /\ pc' = "end2"
    /\ UNCHANGED <<chain, tmp, input, pos, sum, seenIPs, minuteCounts, timeline, rows, seen,
                   ret, rateAnoms, sensAnoms, resp>>

\* ParseTSVRows: return sum, timeline, rows, nil
ParseTSVRows_Return ==
    /\ pc = "end2"
    /\ pc' = "returned"
    /\ ret' = [sum |-> sum, timeline |-> timeline, rows |-> Slice(rows), err |-> FALSE]
    /\ UNCHANGED <<chain, tmp, input, pos, sum, seenIPs, minuteCounts, timeline, rows, seen,
                   rateAnoms, sensAnoms, resp>>

\* a variant of Handler_ParseError that leaves the saved upload in place
Handler_ParseError_KeepsFile ==
    /\ pc = "returned"
    /\ ret.err
    /\ resp' = ErrorResponse(400)
    /\ pc' = "done"
    /\ UNCHANGED <<chain, tmp, input, pos, sum, seenIPs, minuteCounts, timeline, rows, seen,
                   ret, rateAnoms, sensAnoms>>

\* Handler: ParseTSVRows returned an error: os.Remove(dest), then 400, no
\* results
Handler_ParseError ==
    /\ pc = "returned"
    /\ ret.err
    /\ resp' = ErrorResponse(400)
    /\ pc' = "done"
    /\ tmp' = tmp \ {dest}
    /\ UNCHANGED <<chain, input, pos, sum, seenIPs, minuteCounts, timeline, rows, seen,
                   ret, rateAnoms, sensAnoms>>

\* Handler: rateAnoms := analyze.DetectRateSpikes(rows, maxAnoms)
Handler_DetectRateSpikes ==
    /\ pc = "returned"
    /\ ~ret.err
    /\ rateAnoms' \in DetectRateSpikes(ret.rows.elems, maxAnoms)
    /\ pc' = "sens"
    /\ UNCHANGED <<chain, tmp, input, pos, sum, seenIPs, minuteCounts, timeline, rows, seen,
                   ret, sensAnoms, resp>>

\* Handler: sensAnoms := analyze.DetectSensitivePaths(rows, minHits, minUnique)
Handler_DetectSensitivePaths ==
    /\ pc = "sens"
    /\ sensAnoms' \in DetectSensitivePaths(ret.rows.elems, minHits, minUnique)
    /\ pc' = "merge"
    /\ UNCHANGED <<chain, tmp, input, pos, sum, seenIPs, minuteCounts, timeline, rows, seen,
                   ret, rateAnoms, resp>>

\* a variant of Handler_Respond that puts the sensitive-path anomalies first
Handler_Respond_SensitiveFirst ==
    /\ pc = "merge"
    /\ resp' = [status |-> 200, Summary |-> ret.sum, Timeline |-> ret.timeline,
                Rows |-> ret.rows,
                Anomalies |->
                  LET all == [i \in 1..Len(sensAnoms.elems) |->
                                FromSensitive(sensAnoms.elems[i])]
                             \o [i \in 1..Len(rateAnoms.elems) |->
                                   FromRate(rateAnoms.elems[i])]
                  IN  Slice(IF Len(all) > maxAnoms THEN SubSeq(all, 1, maxAnoms)
                                                   ELSE all)]
    /\ pc' = "done"
    /\ UNCHANGED <<chain, tmp, input, pos, sum, seenIPs, minuteCounts, timeline, rows, seen,
                   ret, rateAnoms, sensAnoms>>

\* Handler: merge, cap and respond 200
Handler_Respond ==
    /\ pc = "merge"
    /\ resp' = [status |-> 200, Summary |-> ret.sum, Timeline |-> ret.timeline,
                Rows |-> ret.rows,
                Anomalies |-> Merge(rateAnoms.elems, sensAnoms.elems, maxAnoms)]
    /\ pc' = "done"
    /\ UNCHANGED <<chain, tmp, input, pos, sum, seenIPs, minuteCounts, timeline, rows, seen,
                   ret, rateAnoms, sensAnoms>>

\* the same file is submitted a second time with the same parameters and
\* saved under a new name
Rerun ==
    /\ pc = "done"
    /\ run = 1
    /\ run' = 2
    /\ prev' = resp
    /\ pc' = "open1"
    /\ resp' = NoResponse
    /\ dest' = dest + 1
    /\ tmp' = tmp \cup {dest + 1}
    /\ UNCHANGED <<file, maxRows, keepRows, maxAnoms, minHits, minUnique, pos,
                   sum, seenIPs, minuteCounts, timeline, rows, seen, ret,
                   rateAnoms, sensAnoms, allowedOrigin, req, stage, reply, served>>

Next ==
    \/ ParseTSV_Open
    \/ ParseTSV_OpenFail
    \/ ParseTSV_Scan
    \/ ParseTSV_EOF
    \/ ParseTSV_TooLong
    \/ ParseTSV_Return
    \/ ParseTSVRows_OpenFail
    \/ ParseTSVRows_MakePanic
    \/ ParseTSVRows_Open
    \/ ParseTSVRows_Scan
    \/ ParseTSVRows_EOF
    \/ ParseTSVRows_Return
    \/ Handler_ParseError
    \/ Handler_DetectRateSpikes
    \/ Handler_DetectSensitivePaths
    \/ Handler_Respond

Spec == Init /\ [][Next]_vars

(***************************************************************************)
(* The handler on burst files, ParseTSVRows taken as one step              *)
(***************************************************************************)
InitBurst ==
    /\ file \in BurstFiles
    /\ maxRows = maxRowsScan
    /\ keepRows = keepRowsConst
    /\ \E c \in Configs :
         /\ maxAnoms = c.maxAnoms
         /\ minHits = c.minHits
         /\ minUnique = c.minUnique
    /\ pc = "open1"
    /\ pos = 0
    /\ sum = ZeroSummary
    /\ seenIPs = {}
    /\ minuteCounts = << >>
    /\ timeline = NilSlice
    /\ rows = << >>
    /\ seen = 0
    /\ ret = [sum |-> ZeroSummary, timeline |-> NilSlice, rows |-> NilSlice, err |-> FALSE]
    /\ rateAnoms = NilSlice
    /\ sensAnoms = NilSlice
    /\ resp = NoResponse
    /\ run = 1
    /\ prev = NoResponse
    /\ allowedOrigin = DefaultOrigin
    /\ req = UploadRequest
    /\ stage = "parse"
    /\ reply = [NoReply EXCEPT !.called = {"cors", "auth", "upload"}]
    /\ dest = 1
    /\ served = 1
    /\ tmp = {1}

\* Handler: sum, timeline, rows, perr := parse.ParseTSVRows(dest, maxRowsScan, keepRows)
Handler_ParseTSVRows ==
    /\ pc = "open1"
    /\ ret' = ParseTSVRows(file, maxRows, keepRows)
    /\ pc' = "returned"
    /\ UNCHANGED <<chain, tmp, input, pos, sum, seenIPs, minuteCounts, timeline, rows, seen,
                   rateAnoms, sensAnoms, resp>>

NextBurst ==
    \/ Handler_ParseTSVRows
    \/ Handler_DetectRateSpikes
    \/ Handler_DetectSensitivePaths
    \/ Handler_Respond

SpecBurst == InitBurst /\ [][NextBurst]_vars

NextTwice == NextBurst \/ Rerun

SpecTwice == InitBurst /\ [][NextTwice]_vars

(***************************************************************************)
(* The server: root mux, CORS, BasicAuth, protected mux, upload handler     *)
(***************************************************************************)
InitServer ==
    /\ file = << >>
    /\ maxRows = maxRowsScan
    /\ keepRows = keepRowsConst
    /\ maxAnoms = HandlerConfig.maxAnoms
    /\ minHits = HandlerConfig.minHits
    /\ minUnique = HandlerConfig.minUnique
    /\ pc = "wait"
    /\ pos = 0
    /\ sum = ZeroSummary
    /\ seenIPs = {}
    /\ minuteCounts = << >>
    /\ timeline = NilSlice
    /\ rows = << >>
    /\ seen = 0
    /\ ret = [sum |-> ZeroSummary, timeline |-> NilSlice, rows |-> NilSlice, err |-> FALSE]
    /\ rateAnoms = NilSlice
    /\ sensAnoms = NilSlice
    /\ resp = NoResponse
    /\ run = 1
    /\ prev = NoResponse
    /\ allowedOrigin \in AllowedOrigins
    /\ req = NoRequest
    /\ stage = "idle"
    /\ reply = NoReply
    /\ dest = 0
    /\ served = 0
    /\ tmp = {}

\* the response to the request has been written
Answered == stage = "answered" \/ (stage = "parse" /\ pc = "done")

\* the status of the response
Status == IF stage = "parse" THEN resp.status ELSE reply.status

\* what does not change while the request is with the chain before the
\* upload handler has saved the file
parked == <<file, maxRows, keepRows, maxAnoms, minHits, minUnique, run, prev, pc,
            pos, sum, seenIPs, minuteCounts, timeline, rows, seen, ret, rateAnoms,
            sensAnoms, resp, allowedOrigin, req, served>>

\* http.ListenAndServe: the next request arrives, with fresh locals
Server_Accept ==
    /\ stage = "idle" \/ Answered
    /\ served < MaxRequests
    /\ \E r \in Requests : \E body \in Uploads :
         /\ req' = r
         /\ file' = IF r.hasFile THEN body ELSE << >>
         /\ ~r.hasFile => body = << >>
    /\ served' = served + 1
    /\ stage' = "root"
    /\ reply' = NoReply
    /\ pc' = "wait"
    /\ pos' = 0
    /\ sum' = ZeroSummary
    /\ seenIPs' = {}
    /\ minuteCounts' = << >>
    /\ timeline' = NilSlice
    /\ rows' = << >>
    /\ seen' = 0
    /\ ret' = [sum |-> ZeroSummary, timeline |-> NilSlice, rows |-> NilSlice, err |-> FALSE]
    /\ rateAnoms' = NilSlice
    /\ sensAnoms' = NilSlice
    /\ resp' = NoResponse
    /\ UNCHANGED <<maxRows, keepRows, maxAnoms, minHits, minUnique, run, prev,
                   allowedOrigin, dest, tmp>>

\* root mux: "GET /healthz" (GET and HEAD) goes to the public mux and healthz
Root_Healthz ==
    /\ stage = "root"
    /\ req.path = "/healthz" /\ req.method \in {"GET", "HEAD"}
    /\ reply' = [reply EXCEPT !.status = 204, !.called = @ \cup {"healthz"},
                              !.at = "healthz"]
    /\ stage' = "answered"
    /\ UNCHANGED <<parked, dest, tmp>>

\* root mux: "/" takes everything else to CORS(BasicAuth(protected))
Root_Protected ==
    /\ stage = "root"
    /\ ~(req.path = "/healthz" /\ req.method \in {"GET", "HEAD"})
    /\ stage' = "cors"
    /\ UNCHANGED <<parked, reply, dest, tmp>>

\* CORS: no Origin header, the request goes to next
CORS_NoOrigin ==
    /\ stage = "cors"
    /\ req.origin = ""
    /\ reply' = [reply EXCEPT !.called = @ \cup {"cors"}]
    /\ stage' = "auth"
    /\ UNCHANGED <<parked, dest, tmp>>

\* CORS: an Origin header and method OPTIONS: headers for the allowed
\* origin, then 204
CORS_Preflight ==
    /\ stage = "cors"
    /\ req.origin # ""
    /\ req.method = "OPTIONS"
    /\ reply' = [reply EXCEPT !.allow = AllowsOrigin(req.origin, allowedOrigin),
                              !.status = 204, !.called = @ \cup {"cors"},
                              !.at = "cors"]
    /\ stage' = "answered"
    /\ UNCHANGED <<parked, dest, tmp>>

\* CORS: an Origin header and another method: headers for the allowed
\* origin, then next
CORS_Actual ==
    /\ stage = "cors"
    /\ req.origin # ""
    /\ req.method # "OPTIONS"
    /\ reply' = [reply EXCEPT !.allow = AllowsOrigin(req.origin, allowedOrigin),
                              !.called = @ \cup {"cors"}]
    /\ stage' = "auth"
    /\ UNCHANGED <<parked, dest, tmp>>

\* BasicAuth: one of the four rejections, 401
BasicAuth_Reject ==
    /\ stage = "auth"
    /\ ~Authorized(req.authz)
    /\ reply' = [reply EXCEPT !.status = 401, !.called = @ \cup {"auth"},
                              !.at = "auth"]
    /\ stage' = "answered"
    /\ UNCHANGED <<parked, dest, tmp>>

\* BasicAuth: the credentials match, next.ServeHTTP
BasicAuth_Next ==
    /\ stage = "auth"
    /\ Authorized(req.authz)
    /\ reply' = [reply EXCEPT !.called = @ \cup {"auth"}]
    /\ stage' = "mux"
    /\ UNCHANGED <<parked, dest, tmp>>

\* protected mux: "GET /ping" (GET and HEAD) runs ping
Mux_Ping ==
    /\ stage = "mux"
    /\ req.path = "/ping" /\ req.method \in {"GET", "HEAD"}
    /\ reply' = [reply EXCEPT !.status = 200, !.called = @ \cup {"ping"},
                              !.at = "ping"]
    /\ stage' = "answered"
    /\ UNCHANGED <<parked, dest, tmp>>

\* protected mux: "POST /api/upload" runs the upload handler
Mux_Upload ==
    /\ stage = "mux"
    /\ req.path = "/api/upload" /\ req.method = "POST"
    /\ reply' = [reply EXCEPT !.called = @ \cup {"upload"}]
    /\ stage' = "upload"
    /\ UNCHANGED <<parked, dest, tmp>>

\* protected mux: no pattern for the request: 405 for a path that has a
\* pattern with another method, else 404
Mux_NoRoute ==
    /\ stage = "mux"
    /\ ~(req.path = "/ping" /\ req.method \in {"GET", "HEAD"})
    /\ ~(req.path = "/api/upload" /\ req.method = "POST")
    /\ reply' = [reply EXCEPT
                    !.status = IF req.path \in {"/ping", "/api/upload"} THEN 405 ELSE 404,
                    !.at = "mux"]
    /\ stage' = "answered"
    /\ UNCHANGED <<parked, dest, tmp>>

\* upload handler: the exits before the temporary file: a method other than
\* POST (405), no part "file" in the form (400)
Upload_Reject ==
    /\ stage = "upload"
    /\ req.method # "POST" \/ ~req.hasFile
    /\ reply' = [reply EXCEPT !.status = IF req.method # "POST" THEN 405 ELSE 400,
                              !.at = "form"]
    /\ stage' = "answered"
    /\ UNCHANGED <<parked, dest, tmp>>

\* upload handler: jobID is new, os.Create(dest) fails, 500
Upload_CreateFail ==
    /\ stage = "upload"
    /\ req.method = "POST" /\ req.hasFile
    /\ dest' = served
    /\ reply' = [reply EXCEPT !.status = 500, !.at = "create"]
    /\ stage' = "answered"
    /\ UNCHANGED <<parked, tmp>>

\* upload handler: jobID is new, os.Create(dest) makes the file
Upload_Create ==
    /\ stage = "upload"
    /\ req.method = "POST" /\ req.hasFile
    /\ dest' = served
    /\ tmp' = tmp \cup {served}
    /\ stage' = "copy"
    /\ UNCHANGED <<parked, reply>>

\* upload handler: io.Copy or out.Close fails: os.Remove(dest), then 500
Upload_CopyFail ==
    /\ stage = "copy"
    /\ tmp' = tmp \ {dest}
    /\ reply' = [reply EXCEPT !.status = 500, !.at = "copy"]
    /\ stage' = "answered"
    /\ UNCHANGED <<parked, dest>>

\* upload handler: the upload is saved, ParseTSVRows is next
Upload_Saved ==
    /\ stage = "copy"
    /\ stage' = "parse"
    /\ pc' = "open1"
    /\ UNCHANGED <<file, maxRows, keepRows, maxAnoms, minHits, minUnique, run, prev,
                   pos, sum, seenIPs, minuteCounts, timeline, rows, seen, ret,
                   rateAnoms, sensAnoms, resp, allowedOrigin, req, served, reply,
                   dest, tmp>>

NextServer ==
    \/ Server_Accept
    \/ Root_Healthz
    \/ Root_Protected
    \/ CORS_NoOrigin
    \/ CORS_Preflight
    \/ CORS_Actual
    \/ BasicAuth_Reject
    \/ BasicAuth_Next
    \/ Mux_Ping
    \/ Mux_Upload
    \/ Mux_NoRoute
    \/ Upload_Reject
    \/ Upload_CreateFail
    \/ Upload_Create
    \/ Upload_CopyFail
    \/ Upload_Saved
    \/ Handler_ParseTSVRows
    \/ Handler_ParseError
    \/ Handler_DetectRateSpikes
    \/ Handler_DetectSensitivePaths
    \/ Handler_Respond

SpecServer == InitServer /\ [][NextServer]_vars

(***************************************************************************)
(* Properties                                                              *)
(***************************************************************************)
\* the lines within the scan cap: the first maxRows, all for maxRows <= 0
ScannedCount == IF maxRows > 0 THEN Min(Len(file), maxRows) ELSE Len(file)

\* the lines that feed the aggregation: scanned, at least 2 columns, a
\* parseable timestamp
Aggregated ==
    { i \in 1..ScannedCount :
        Len(file[i].parts) >= 2 /\ file[i].parts[1] \in DOMAIN RFC3339 }

\* C1: running the pipeline twice on the same input yields the same
\* Summary, the same Timeline and the same anomaly list, in the same order.
C1_SameResultTwice ==
    (run = 2 /\ pc = "done" /\ prev.status = 200 /\ resp.status = 200)
        => /\ resp.Summary = prev.Summary
           /\ resp.Timeline = prev.Timeline
           /\ resp.Anomalies = prev.Anomalies

C3_StartEarliestEndLatest ==
    pc = "open2" =>
        LET ts == { RFC3339[file[i].parts[1]] : i \in Aggregated }
        IN  IF ts = {} THEN sum.Start = ZeroTime /\ sum.End = ZeroTime
            ELSE /\ sum.Start \in ts /\ \A t \in ts : sum.Start <= t
                 /\ sum.End \in ts /\ \A t \in ts : t <= sum.End

\* C4: when ParseTSVRows succeeds, Summary.Lines is at least the sum of the
\* bucket counts and at least the number of returned rows.
C4_LinesBoundsCounts ==
    (pc = "returned" /\ ~ret.err) =>
        /\ ret.sum.Lines >=
             SumSeq([i \in 1..Len(ret.timeline.elems) |-> ret.timeline.elems[i].Count])
        /\ ret.sum.Lines >= Len(ret.rows.elems)

\* C4 witness: ParseTSVRows has succeeded with rows and buckets.
C4_Witness ==
    /\ pc = "returned"
    /\ ~ret.err
    /\ Len(ret.rows.elems) >= 2
    /\ Len(ret.timeline.elems) >= 1
    /\ ret.sum.Lines = Len(ret.rows.elems)

\* C5: an error of ParseTSVRows comes with the zero Summary, a nil timeline
\* and nil rows, and ParseTSVRows does not succeed on a file with an
\* over-long line among the scanned lines.
C5_ErrorIsWhole ==
    pc = "returned" =>
        /\ ret.err =>
             /\ ret.sum = ZeroSummary
             /\ ret.timeline.isNil /\ ret.timeline.elems = << >>
             /\ ret.rows.isNil /\ ret.rows.elems = << >>
        /\ ~ret.err => \A i \in 1..ScannedCount : ~file[i].tooLong

\* C5 witness: ParseTSVRows has failed after lines were counted.
C5_Witness ==
    /\ pc = "returned"
    /\ ret.err
    /\ sum.Lines >= 1
    /\ sum.Start # ZeroTime

\* C6: in ParseTSV a delivered line with fewer than 2 columns or an
\* unparseable timestamp adds one to Summary.Lines and leaves Start, End,
\* the seen IPs and the minute counts as they were, without an error.
C6_BadLineOnlyCounted ==
    [][ ( /\ pc = "scan1"
          /\ pos < Len(file)
          /\ ~file[pos + 1].tooLong
          /\ \/ Len(file[pos + 1].parts) < 2
             \/ file[pos + 1].parts[1] \notin DOMAIN RFC3339 )
        => /\ sum'.Lines = sum.Lines + 1
           /\ sum'.Start = sum.Start
           /\ sum'.End = sum.End
           /\ seenIPs' = seenIPs
           /\ minuteCounts' = minuteCounts
           /\ pc' \in {"scan1", "end1"}
           /\ ret' = ret ]_vars

\* C6 witness: after good lines, ParseTSV has taken a line with a source IP
\* but an unparseable timestamp, within the cap.
C6_Witness ==
    /\ pc = "scan1"
    /\ pos >= 2
    /\ Len(file[pos].parts) >= 2
    /\ file[pos].parts[1] \notin DOMAIN RFC3339
    /\ sum.Lines = pos
    /\ seenIPs # {}

\* C7: with keepRows > 0 ParseTSVRows returns the first
\* min(scanned lines, keepRows) lines, row i being the parse of line i, a
\* line with too few columns or an unparseable timestamp staying in its
\* position as a row without timestamp.
C7_FirstKeepRowsInOrder ==
    (pc = "returned" /\ ~ret.err /\ keepRows > 0) =>
        /\ Len(ret.rows.elems) = Min(ScannedCount, keepRows)
        /\ \A i \in 1..Len(ret.rows.elems) :
             /\ ret.rows.elems[i] = ParseRow(file[i].parts)
             /\ file[i].parts[1] \notin DOMAIN RFC3339 => ret.rows.elems[i].TS = ZeroTime
             /\ Len(file[i].parts) < 2 =>
                  ret.rows.elems[i] = [ZeroEvent EXCEPT !.TS = ret.rows.elems[i].TS]

\* C7 witness: keepRows has cut the rows, and a kept row comes from a line
\* that does not feed the aggregation.
C7_Witness ==
    /\ pc = "returned"
    /\ ~ret.err
    /\ keepRows > 0
    /\ Len(ret.rows.elems) = keepRows
    /\ ScannedCount > keepRows
    /\ \E i \in 2..Len(ret.rows.elems) : i \notin Aggregated

\* C8: every scanned line gives a row; a missing column leaves its field at
\* the zero value, an unparseable timestamp leaves TS zero, a non-numeric
\* status or byte count leaves 0, every other present column is copied.
C8_RowParserTolerant ==
    (pc = "returned" /\ ~ret.err) =>
        /\ keepRows <= 0 => Len(ret.rows.elems) = ScannedCount
        /\ \A i \in 1..Len(ret.rows.elems) :
             LET p == file[i].parts
                 r == ret.rows.elems[i]
                 Text(k) == IF Len(p) >= k THEN p[k] ELSE ""
                 Number(k) == IF Len(p) >= k /\ p[k] \in DOMAIN Decimal
                              THEN Decimal[p[k]] ELSE 0
             IN  /\ r.TS = IF p[1] \in DOMAIN RFC3339 THEN RFC3339[p[1]] ELSE ZeroTime
                 /\ r.SrcIP = Text(2)
                 /\ r.Dst = Text(3)
                 /\ r.Method = Text(4)
                 /\ r.Path = Text(5)
                 /\ r.Status = Number(6)
                 /\ r.Bytes = Number(7)
                 /\ r.UA = Text(8)

\* C8 witness: rows were returned for a line with a non-numeric status and
\* for a line with a non-numeric byte count.
C8_Witness ==
    /\ pc = "returned"
    /\ ~ret.err
    /\ \E i, j \in 1..Len(ret.rows.elems) :
         /\ Len(file[i].parts) = 6
         /\ file[i].parts[6] \notin DOMAIN Decimal
         /\ ret.rows.elems[i].Path = "/.git/config"
         /\ Len(file[j].parts) = 7
         /\ file[j].parts[7] \notin DOMAIN Decimal
         /\ ret.rows.elems[j].Status = 404

\* C9: a non-positive cap means unbounded and never aborts: maxRows <= 0
\* scans every line, keepRows <= 0 returns every scanned row.
C9_NonPositiveCapsUnbounded ==
    /\ pc # "panic"
    /\ (pc = "returned" /\ ~ret.err) =>
         /\ maxRows <= 0 => ret.sum.Lines = Len(file)
         /\ keepRows <= 0 => Len(ret.rows.elems) = ScannedCount

StepwiseAgrees ==
    (pc = "returned" /\ ~ret.err) =>
        \A one \in { ParseTSVRows(file, maxRows, keepRows) } :
            /\ ~one.err
            /\ ret.sum = one.sum
            /\ ret.rows = one.rows
            /\ ret.timeline.isNil = one.timeline.isNil
            /\ Len(ret.timeline.elems) = Len(one.timeline.elems)
            /\ { ret.timeline.elems[k] : k \in 1..Len(ret.timeline.elems) }
                 = { one.timeline.elems[k] : k \in 1..Len(one.timeline.elems) }

(***************************************************************************)
(* The rows ParseTSVRows returned, counted without the detector            *)
(***************************************************************************)
\* the sources of the rows
RowIPs == { ret.rows.elems[i].SrcIP : i \in 1..Len(ret.rows.elems) } \ {""}

\* the minutes of the rows
RowMinutes ==
    { ret.rows.elems[i].TS - (ret.rows.elems[i].TS % 60) : i \in 1..Len(ret.rows.elems) }

\* PerMinute[ip][m]: the requests of ip with a timestamp in minute m
PerMinute ==
    [ip \in RowIPs |-> [m \in RowMinutes |->
        Cardinality({ i \in 1..Len(ret.rows.elems) :
                        /\ ret.rows.elems[i].SrcIP = ip
                        /\ ret.rows.elems[i].TS # ZeroTime
                        /\ ret.rows.elems[i].TS - (ret.rows.elems[i].TS % 60) = m })]]

\* per source, from its counts C: its minutes, their number n, the sum s and
\* the sum of squares q of its counts (mean = s / n, std^2 = (n q - s^2) / n^2)
PerSource(C) ==
    [ip \in DOMAIN C |->
        LET mins == { m \in RowMinutes : C[ip][m] > 0 }
        IN  [mins |-> mins,
             n |-> Cardinality(mins),
             s |-> SumOver(C[ip], mins),
             q |-> SumOver([m \in RowMinutes |-> C[ip][m] * C[ip][m]], mins)]]

\* C11: a pair (IP, minute) with count c >= 10 and c >= 2.5 times the mean
\* per-minute count of the IP is reported by DetectRateSpikes, unless the
\* keepTop cut removed it (the result is then full and holds no older minute).
C11_MultiplierFlags ==
    pc = "sens" =>
        \A C \in { PerMinute } : \A B \in { PerSource(C) } :
            \A ip \in RowIPs : \A m \in B[ip].mins :
                (C[ip][m] >= 10 /\ 2 * B[ip].n * C[ip][m] >= 5 * B[ip].s)
                    => \/ \E i \in 1..Len(rateAnoms.elems) :
                            /\ rateAnoms.elems[i].Kind = "rate_spike"
                            /\ rateAnoms.elems[i].SrcIP = ip
                            /\ rateAnoms.elems[i].Minute = m
                            /\ rateAnoms.elems[i].Count = C[ip][m]
                       \/ /\ maxAnoms > 0
                          /\ Len(rateAnoms.elems) = maxAnoms
                          /\ \A i \in 1..Len(rateAnoms.elems) :
                               rateAnoms.elems[i].Minute >= m

\* C11 witness: for the counts 10, 10, 10, 50 of one source the minute with
\* 50 requests is reported, against a baseline of 20.
C11_Witness ==
    /\ pc = "sens"
    /\ Len(ret.rows.elems) = 80
    /\ Len(rateAnoms.elems) = 1
    /\ rateAnoms.elems[1].Count = 50
    /\ rateAnoms.elems[1].Baseline = 2000

\* C12: a source whose per-minute counts are all equal, a source seen in one
\* minute only included, has no anomaly in the result of DetectRateSpikes.
C12_EqualCountsNeverFlag ==
    pc = "sens" =>
        \A B \in { PerSource(PerMinute) } :
            \A ip \in RowIPs :
                B[ip].n * B[ip].q = B[ip].s * B[ip].s
                    => \A i \in 1..Len(rateAnoms.elems) : rateAnoms.elems[i].SrcIP # ip

\* C12 witness: a source with 15 requests, all in one minute, goes
\* unreported while another source is reported.
C12_Witness ==
    /\ pc = "sens"
    /\ Len(rateAnoms.elems) >= 1
    /\ \E ip \in RowIPs :
         /\ Cardinality({ m \in RowMinutes : PerMinute[ip][m] > 0 }) = 1
         /\ \E m \in RowMinutes : PerMinute[ip][m] = 15
         /\ \A i \in 1..Len(rateAnoms.elems) : rateAnoms.elems[i].SrcIP # ip

\* C13: no anomaly DetectRateSpikes returns has a Count below 10.
C13_FloorHolds ==
    pc = "sens" =>
        \A i \in 1..Len(rateAnoms.elems) : rateAnoms.elems[i].Count >= 10

\* C13 witness: a source with per-minute counts 1, 1, 1, 1, 1, 9, whose
\* minute of 9 requests lies more than two standard deviations above its
\* mean, is not reported.
C13_Witness ==
    /\ pc = "sens"
    /\ rateAnoms.elems = << >>
    /\ \E ip \in RowIPs :
         /\ \E m \in RowMinutes : PerMinute[ip][m] = 9
         /\ Cardinality({ m \in RowMinutes : PerMinute[ip][m] = 1 }) = 5

\* C14: every anomaly of either detector has a Confidence in [0, 1]; a rate
\* spike of (IP, minute) with count c has z = (c - mean) / std >= 0 and
\* Confidence = round2(min(1, 1 - e^(-z/3))), a sensitive-path anomaly has
\* Confidence = round2(1 - e^(-hits/10)). (Confidence in hundredths; z^2 is
\* (n c - s)^2 / (n q - s^2), compared with the steps of the rounded squash.)
C14_ConfidenceInUnitInterval ==
    pc = "merge" =>
        /\ \A B \in { PerSource(PerMinute) } :
             \A i \in 1..Len(rateAnoms.elems) :
                LET a == rateAnoms.elems[i]
                    b == B[a.SrcIP]
                    d == b.n * a.Count - b.s
                    v == b.n * b.q - b.s * b.s
                    j == a.Confidence
                IN  /\ j \in 0..100
                    /\ v > 0
                    /\ d >= 0
                    /\ j = 0 \/ 10000 * d * d >= SquashSteps[j] * v
                    /\ j = 100 \/ 10000 * d * d < SquashSteps[j + 1] * v
        /\ \A i \in 1..Len(sensAnoms.elems) :
             LET a == sensAnoms.elems[i]
             IN  /\ a.Confidence \in 0..100
                 /\ a.Hits >= 1
                 /\ a.Confidence = HitsConfidence(a.Hits)

\* C14 witness: a rate spike with z = 1.41 and confidence 0.38 next to a
\* sensitive-path anomaly of 12 hits with confidence 0.70.
C14_Witness ==
    /\ pc = "merge"
    /\ \E i \in 1..Len(rateAnoms.elems) :
         /\ rateAnoms.elems[i].Z = 141
         /\ rateAnoms.elems[i].Confidence = 38
    /\ \E i \in 1..Len(sensAnoms.elems) :
         /\ sensAnoms.elems[i].Hits = 12
         /\ sensAnoms.elems[i].Confidence = 70

\* the pairs <<ip, minute>> the spike rule selects, from the counts C and the
\* per-source figures B: count c >= 10, counts of the source not all equal,
\* and z >= 2 or c >= 2.5 mean
DueSpikes(C, B) ==
    { e \in RowIPs \X RowMinutes :
        LET c == C[e[1]][e[2]]
            b == B[e[1]]
            d == b.n * c - b.s
            v == b.n * b.q - b.s * b.s
        IN  /\ c >= 10
            /\ v > 0
            /\ \/ d >= 0 /\ d * d >= 4 * v
               \/ 2 * b.n * c >= 5 * b.s }

\* C15: DetectRateSpikes returns its anomalies by non-increasing Minute; for
\* keepTop > 0 it returns at most keepTop of them, and a pair the rule
\* selects that is not returned has a Minute no later than every returned one.
C15_NewestFirstAndCut ==
    pc = "sens" =>
        /\ \A i, j \in 1..Len(rateAnoms.elems) :
             i < j => rateAnoms.elems[i].Minute >= rateAnoms.elems[j].Minute
        /\ maxAnoms > 0 => Len(rateAnoms.elems) <= maxAnoms
        /\ \A C \in { PerMinute } : \A B \in { PerSource(C) } :
             \A e \in DueSpikes(C, B) :
                \/ \E i \in 1..Len(rateAnoms.elems) :
                     rateAnoms.elems[i].SrcIP = e[1] /\ rateAnoms.elems[i].Minute = e[2]
                \/ \A i \in 1..Len(rateAnoms.elems) : e[2] <= rateAnoms.elems[i].Minute

\* C15 witness: keepTop = 1 has cut a spike of an earlier minute and kept
\* the spike of the latest minute.
C15_Witness ==
    /\ pc = "sens"
    /\ maxAnoms = 1
    /\ Len(rateAnoms.elems) = 1
    /\ \E e \in DueSpikes(PerMinute, PerSource(PerMinute)) :
         /\ e[1] # rateAnoms.elems[1].SrcIP
         /\ e[2] < rateAnoms.elems[1].Minute

\* the rows of ip that count as sensitive hits: source, path and timestamp
\* present, and the lower-cased path starting with a listed prefix
SensRows(ip) ==
    { i \in 1..Len(ret.rows.elems) :
        /\ ip # ""
        /\ ret.rows.elems[i].SrcIP = ip
        /\ ret.rows.elems[i].Path # ""
        /\ ret.rows.elems[i].TS # ZeroTime
        /\ \E k \in 1..Len(SensitivityList) :
             HasPrefix(ToLower(ret.rows.elems[i].Path), ToLower(SensitivityList[k])) }

\* the place in SensitivityList of the first prefix row i matches
FirstPrefix(i) ==
    CHOOSE k \in 1..Len(SensitivityList) :
        /\ HasPrefix(ToLower(ret.rows.elems[i].Path), ToLower(SensitivityList[k]))
        /\ \A l \in 1..(k - 1) :
             ~HasPrefix(ToLower(ret.rows.elems[i].Path), ToLower(SensitivityList[l]))

\* C16: for positive minHits and minUnique, DetectSensitivePaths returns
\* exactly one anomaly for each source whose sensitive hits are >= minHits or
\* whose distinct matched prefixes are >= minUnique, and none for any other
\* source; its Hits is the number of rows of that source with source, path
\* and timestamp present whose lower-cased path starts with a listed prefix,
\* its UniquePref the number of distinct first-matching prefixes of those rows.
C16_OnePerSourceOverThreshold ==
    pc = "merge" =>
        /\ \A i \in 1..Len(sensAnoms.elems) : sensAnoms.elems[i].SrcIP \in RowIPs
        /\ \A ip \in RowIPs :
             LET hits == Cardinality(SensRows(ip))
                 uniq == Cardinality({ FirstPrefix(i) : i \in SensRows(ip) })
                 recs == { i \in 1..Len(sensAnoms.elems) : sensAnoms.elems[i].SrcIP = ip }
             IN  IF hits >= minHits \/ uniq >= minUnique
                 THEN /\ Cardinality(recs) = 1
                      /\ \A i \in recs :
                           /\ sensAnoms.elems[i].Hits = hits
                           /\ sensAnoms.elems[i].UniquePref = uniq
                 ELSE recs = {}

\* C16 witness: five requests of /admin/x by one source and nothing else,
\* minHits = 5: one record with Hits = 5 and UniquePref = 1.
C16_Witness ==
    /\ pc = "merge"
    /\ minHits = 5
    /\ Len(ret.rows.elems) = 5
    /\ \A i \in 1..5 : ret.rows.elems[i].Path = "/admin/x"
    /\ Len(sensAnoms.elems) = 1
    /\ sensAnoms.elems[1].Hits = 5
    /\ sensAnoms.elems[1].UniquePref = 1

\* C17: the merged list of a 200 response holds min(maxAnoms, total) entries,
\* total being the number of rate spikes plus sensitive-path anomalies; entry
\* i is the i-th rate spike while i is within the rate spikes and the
\* (i - number of rate spikes)-th sensitive-path anomaly after them, so the
\* kept entries are a prefix of the rate spikes followed by the
\* sensitive-path anomalies, each kind in the order its detector returned.
C17_MergeIsCappedPrefix ==
    (pc = "done" /\ resp.status = 200) =>
        LET merged == resp.Anomalies.elems
            nr == Len(rateAnoms.elems)
            total == nr + Len(sensAnoms.elems)
        IN  /\ Len(merged) = IF total > maxAnoms THEN maxAnoms ELSE total
            /\ \A i \in 1..Len(merged) :
                 IF i <= nr
                 THEN /\ merged[i].Kind = "rate_spike"
                      /\ merged[i].SrcIP = rateAnoms.elems[i].SrcIP
                      /\ merged[i].Minute = rateAnoms.elems[i].Minute
                      /\ merged[i].Count = rateAnoms.elems[i].Count
                      /\ merged[i].Confidence = rateAnoms.elems[i].Confidence
                 ELSE /\ merged[i].Kind = "sensitive_paths"
                      /\ merged[i].SrcIP = sensAnoms.elems[i - nr].SrcIP
                      /\ merged[i].LastSeen = sensAnoms.elems[i - nr].LastSeen
                      /\ merged[i].Hits = sensAnoms.elems[i - nr].Hits
                      /\ merged[i].Confidence = sensAnoms.elems[i - nr].Confidence

\* C17 witness: one rate spike and two sensitive-path anomalies with
\* maxAnoms = 1: the response holds the rate spike alone.
C17_Witness ==
    /\ pc = "done"
    /\ resp.status = 200
    /\ maxAnoms = 1
    /\ Len(rateAnoms.elems) = 1
    /\ Len(sensAnoms.elems) = 2
    /\ Len(resp.Anomalies.elems) = 1
    /\ resp.Anomalies.elems[1].Kind = "rate_spike"

\* C18: the Anomalies of a 200 response are never nil (an empty list when
\* there is no anomaly); an entry of kind rate_spike has exactly Minute,
\* Count, Baseline and Z set, an entry of kind sensitive_paths exactly
\* FirstSeen, LastSeen, Hits and UniquePref, and there is no other kind.
C18_NeverNilAndFieldsByKind ==
    (pc = "done" /\ resp.status = 200) =>
        /\ ~resp.Anomalies.isNil
        /\ \A i \in 1..Len(resp.Anomalies.elems) :
             LET a == resp.Anomalies.elems[i]
             IN  \/ /\ a.Kind = "rate_spike"
                    /\ a.set = {"Minute", "Count", "Baseline", "Z"}
                 \/ /\ a.Kind = "sensitive_paths"
                    /\ a.set = {"FirstSeen", "LastSeen", "Hits", "UniquePref"}

\* C18 witness: a response holding a rate spike and a sensitive-path anomaly.
C18_Witness ==
    /\ pc = "done"
    /\ resp.status = 200
    /\ ~resp.Anomalies.isNil
    /\ \E i, j \in 1..Len(resp.Anomalies.elems) :
         /\ resp.Anomalies.elems[i].Kind = "rate_spike"
         /\ resp.Anomalies.elems[i].set = {"Minute", "Count", "Baseline", "Z"}
         /\ resp.Anomalies.elems[j].Kind = "sensitive_paths"
         /\ resp.Anomalies.elems[j].set = {"FirstSeen", "LastSeen", "Hits", "UniquePref"}

C20_UniqueIPsIsCardinality ==
    /\ pc = "open2" =>
         sum.UniqueIPs = Cardinality({ file[i].parts[2] : i \in Aggregated })
    /\ (pc = "returned" /\ ~ret.err) =>
         ret.sum.UniqueIPs = Cardinality({ file[i].parts[2] : i \in Aggregated })

\* C20 witness: three aggregated lines, two of them of the same source:
\* UniqueIPs = 2.
C20_Witness ==
    /\ pc = "open2"
    /\ Cardinality(Aggregated) = 3
    /\ \E i, j \in Aggregated : i < j /\ file[i].parts[2] = file[j].parts[2]
    /\ sum.UniqueIPs = 2

\* C21: when the rows of a 200 response are truncated (more lines than
\* keepRows), its anomalies are those the detectors give for all scanned
\* lines, the rows ParseTSVRows returns without a cap on the retained rows.
C21_AnomaliesOverScannedPortion ==
    (pc = "done" /\ resp.status = 200 /\ keepRows > 0 /\ ret.sum.Lines > keepRows) =>
        \A all \in { ParseTSVRows(file, maxRows, 0) } :
            resp.Anomalies \in
              { Merge(r.elems, s.elems, maxAnoms) :
                  r \in DetectRateSpikes(all.rows.elems, maxAnoms),
                  s \in DetectSensitivePaths(all.rows.elems, minHits, minUnique) }

\* C24: DetectSensitivePaths returns its anomalies by non-increasing
\* LastSeen; FirstSeen is the earliest and LastSeen the latest timestamp
\* among the sensitive hits of the anomaly's source, so FirstSeen <= LastSeen.
C24_NewestFirstAndSeenBounds ==
    pc = "merge" =>
        /\ \A i, j \in 1..Len(sensAnoms.elems) :
             i < j => sensAnoms.elems[i].LastSeen >= sensAnoms.elems[j].LastSeen
        /\ \A i \in 1..Len(sensAnoms.elems) :
             LET a == sensAnoms.elems[i]
                 ts == { ret.rows.elems[k].TS : k \in SensRows(a.SrcIP) }
             IN  /\ a.FirstSeen \in ts
                 /\ a.LastSeen \in ts
                 /\ \A t \in ts : a.FirstSeen <= t /\ t <= a.LastSeen
                 /\ a.FirstSeen <= a.LastSeen

\* C24 witness: two anomalies, the first with the later LastSeen and with
\* hits spread over several minutes, both with the same FirstSeen.
C24_Witness ==
    /\ pc = "merge"
    /\ Len(sensAnoms.elems) = 2
    /\ sensAnoms.elems[1].LastSeen > sensAnoms.elems[2].LastSeen
    /\ sensAnoms.elems[1].FirstSeen < sensAnoms.elems[1].LastSeen
    /\ sensAnoms.elems[1].FirstSeen = sensAnoms.elems[2].FirstSeen

\* C25: with maxRows > 0, the Lines ParseTSV returns is the number of lines
\* inspected for the aggregation, min(lines of the file, maxRows), and so
\* never exceeds maxRows.
C25_LinesWithinCap ==
    (pc = "open2" /\ maxRows > 0) =>
        /\ sum.Lines = Min(Len(file), maxRows)
        /\ sum.Lines <= maxRows

\* C26: when ParseTSVRows succeeds and keepRows has dropped no row, the
\* number of returned rows with a non-zero timestamp in a UTC minute is the
\* Count of that minute's timeline bucket, and 0 for a minute without bucket.
C26_PassesAgree ==
    (pc = "returned" /\ ~ret.err /\ Len(ret.rows.elems) = ScannedCount) =>
        LET InMinute(m) ==
              Cardinality({ i \in 1..Len(ret.rows.elems) :
                              /\ ret.rows.elems[i].TS # ZeroTime
                              /\ ret.rows.elems[i].TS - (ret.rows.elems[i].TS % Minute) = m })
            BucketMinutes ==
              { ret.timeline.elems[k].T : k \in 1..Len(ret.timeline.elems) }
        IN  /\ \A k \in 1..Len(ret.timeline.elems) :
                 InMinute(ret.timeline.elems[k].T) = ret.timeline.elems[k].Count
            /\ \A m \in RowMinutes \ BucketMinutes : InMinute(m) = 0

\* C27: a line with an empty source-IP column does not add to UniqueIPs:
\* when ParseTSV succeeds, UniqueIPs is the number of distinct non-empty
\* values of the source-IP column on the aggregated lines.
C27_EmptySourceNotCounted ==
    pc = "open2" =>
        sum.UniqueIPs = Cardinality({ file[i].parts[2] : i \in Aggregated } \ {""})

\* C30: in the Anomalies of a 200 response every rate_spike entry stands
\* before every sensitive_paths entry; the j-th sensitive-path anomaly of
\* the detector is in the list iff the number of rate spikes returned plus
\* j is at most maxAnoms, so with maxAnoms rate spikes the list holds no
\* sensitive-path anomaly.
C30_SensitiveInFreeSlots ==
    (pc = "done" /\ resp.status = 200) =>
        LET merged == resp.Anomalies.elems
            nr == Len(rateAnoms.elems)
        IN  /\ \A i, j \in 1..Len(merged) :
                 (merged[i].Kind = "sensitive_paths" /\ merged[j].Kind = "rate_spike")
                    => j < i
            /\ \A j \in 1..Len(sensAnoms.elems) :
                 (\E k \in 1..Len(merged) :
                      /\ merged[k].Kind = "sensitive_paths"
                      /\ merged[k].SrcIP = sensAnoms.elems[j].SrcIP)
                    <=> nr + j <= maxAnoms
            /\ nr = maxAnoms =>
                 \A k \in 1..Len(merged) : merged[k].Kind # "sensitive_paths"

\* C30 witness: the rate spikes fill all maxAnoms slots and the detector's
\* sensitive-path anomalies are left out of the response.
C30_Witness ==
    /\ pc = "done"
    /\ resp.status = 200
    /\ Len(rateAnoms.elems) = maxAnoms
    /\ Len(sensAnoms.elems) >= 1
    /\ Len(resp.Anomalies.elems) = maxAnoms
    /\ \A k \in 1..Len(resp.Anomalies.elems) :
         resp.Anomalies.elems[k].Kind = "rate_spike"

\* C28: every error response written after the temporary file was created
\* (500 for a failed copy or close, 400 for a failed parse) finds the file
\* removed, and carries no summary, timeline, rows or anomalies.
C28_ErrorRemovesTempFile ==
    /\ (Answered /\ stage = "answered" /\ reply.at = "copy") =>
          (Status = 500 /\ dest \notin tmp /\ resp = NoResponse)
    /\ (Answered /\ stage = "parse" /\ ret.err) =>
          (Status = 400 /\ dest \notin tmp /\ resp = ErrorResponse(400))

\* an upload with a line longer than the scanner's buffer was saved, failed to
\* parse and was answered with 400
C28_Witness ==
    /\ stage = "parse" /\ pc = "done"
    /\ \E i \in 1..Len(file) : file[i].tooLong
    /\ resp.status = 400
    /\ dest = served
    /\ dest \notin tmp

\* C29: once a request has been answered, with success or with an error, no
\* temporary file of this or of an earlier upload exists.
C29_TempFileGone == Answered => tmp = {}

\* C22 as stated: ping and the upload handler run only for a request whose
\* Authorization header is "Basic " and the base64 of the configured
\* user:pass; every other request to a path other than /healthz is answered
\* 401 and runs neither; GET /healthz is served without credentials.
C22_OnlyWithCredentialsElse401 ==
    Answered =>
        /\ (reply.called \cap {"ping", "upload"} # {}) =>
              req.authz = "Basic YWRtaW46c2VjcmV0"
        /\ (req.path # "/healthz" /\ req.authz # "Basic YWRtaW46c2VjcmV0") =>
              (Status = 401 /\ reply.called \cap {"ping", "upload"} = {})
        /\ (req.path = "/healthz" /\ req.method = "GET") =>
              (Status = 204 /\ "healthz" \in reply.called /\ "auth" \notin reply.called)

\* C22 amended: as C22, except that a request without valid credentials
\* that has method OPTIONS and an Origin header is answered 204 by the CORS
\* middleware, before BasicAuth and without ping or the upload handler.
C22_OnlyWithCredentialsElse401OrPreflight ==
    Answered =>
        /\ (reply.called \cap {"ping", "upload"} # {}) =>
              req.authz = "Basic YWRtaW46c2VjcmV0"
        /\ (req.path # "/healthz" /\ req.authz # "Basic YWRtaW46c2VjcmV0") =>
              IF req.method = "OPTIONS" /\ req.origin # ""
              THEN Status = 204 /\ reply.called \cap {"auth", "ping", "upload"} = {}
              ELSE Status = 401 /\ reply.called \cap {"ping", "upload"} = {}
        /\ (req.path = "/healthz" /\ req.method = "GET") =>
              (Status = 204 /\ "healthz" \in reply.called /\ "auth" \notin reply.called)

\* a POST /api/upload with a file, the right user and a wrong password was
\* answered 401 and the upload handler did not run
C22_Witness ==
    /\ Answered
    /\ req.method = "POST" /\ req.path = "/api/upload" /\ req.hasFile
    /\ req.authz = "Basic YWRtaW46d3Jvbmc="
    /\ Status = 401
    /\ "upload" \notin reply.called
    /\ tmp = {}

====
